---- MODULE Spec2Model ----
(***************************************************************************)
(* provider-matrix: the Observe/Create/Update/Delete reconcilers of the    *)
(* User, Room, PowerLevel and RoomAlias kinds, the wire client they call   *)
(* (internal/clients) and a homeserver that answers the client's HTTP      *)
(* requests.                                                               *)
(*                                                                         *)
(* Texts that the code inspects character by character (Matrix IDs, the    *)
(* dynamic parts of error messages) are sequences of one-character         *)
(* strings.  Texts that the code only copies (display names, topics, ...)  *)
(* are TLA+ strings, with "" the Go zero value.  A Go pointer or optional  *)
(* value is a sequence of length 0 (nil) or 1 (set).  A Go map is a        *)
(* function with a finite domain; a nil map and an empty map are both the  *)
(* empty function, which is how len, range and indexing treat them.        *)
(***************************************************************************)
EXTENDS Integers, Sequences, FiniteSets, TLC

VARIABLES adminMode, cr, srv, last

vars == <<adminMode, cr, srv, last>>

-----------------------------------------------------------------------------
(* Optional values and maps *)

None == <<>>

Some(v) == <<v>>

IsSet(p) == Len(p) = 1

Deref(p) == p[1]

EmptyMap == <<>>

MapLen(m) == Cardinality(DOMAIN m)

-----------------------------------------------------------------------------
(* Character texts *)

\* strings.HasPrefix(s, p) for a one-character prefix p.
HasPrefix(s, p) == Len(s) >= 1 /\ s[1] = p

\* len(strings.Split(s, ":")): one more than the number of separators.
SplitCount(s, sep) == Cardinality({i \in 1..Len(s) : s[i] = sep}) + 1

\* strings.Contains(s, needle) on character sequences.
Contains(s, needle) ==
    \E i \in 1..(Len(s) - Len(needle) + 1) :
        \A j \in 1..Len(needle) : s[i + j - 1] = needle[j]

UpperChars == <<"A","B","C","D","E","F","G","H","I","J","K","L","M",
                "N","O","P","Q","R","S","T","U","V","W","X","Y","Z">>

LowerChars == <<"a","b","c","d","e","f","g","h","i","j","k","l","m",
                "n","o","p","q","r","s","t","u","v","w","x","y","z">>

ToLowerChar(c) ==
    IF \E i \in 1..Len(UpperChars) : UpperChars[i] = c
    THEN LowerChars[CHOOSE i \in 1..Len(UpperChars) : UpperChars[i] = c]
    ELSE c

\* strings.ToLower
ToLower(s) == [i \in 1..Len(s) |-> ToLowerChar(s[i])]

Needle404 == <<"4","0","4">>

NeedleNotFound == <<"n","o","t"," ","f","o","u","n","d">>

\* fmt's %d of an HTTP status code (three digits).
Digit(d) == <<"0","1","2","3","4","5","6","7","8","9">>[d + 1]

StatusText(n) == <<Digit(n \div 100), Digit((n \div 10) % 10), Digit(n % 10)>>

-----------------------------------------------------------------------------
(* Matrix identifiers used by the model *)

U1 == <<"@","a",":","x">>

\* The account the provider authenticates as (Config.UserID).
UP == <<"@","p",":","x">>

R1 == <<"!","r",":","x">>

R2 == <<"!","s",":","x">>

A1 == <<"#","a",":","x">>

\* The empty text (the Go zero value of a string).
NoText == <<>>

ServerUserIDs == {U1, UP}

ServerRoomIDs == {R1, R2}

A2 == <<"#","b",":","x">>

ServerAliases == {A1, A2}

-----------------------------------------------------------------------------
(* Errors.  A message is a sequence of fragments; a fragment is a fixed text *)
(* of the source or of a server reply (lit) or a text built at run time      *)
(* (dyn).  typed is TRUE while the value is a bare mautrix.HTTPError, which  *)
(* is what the type assertion of IsNotFound sees; code is its               *)
(* RespError.ErrCode ("" when there is no RespError).                      *)

Lit(text) == [lit |-> text, dyn |-> <<>>]

Dyn(chars) == [lit |-> "", dyn |-> chars]

NilErr == [nil |-> TRUE, typed |-> FALSE, code |-> "", msg |-> <<>>]

\* errors.New, errors.Errorf, fmt.Errorf
ErrNew(frags) == [nil |-> FALSE, typed |-> FALSE, code |-> "", msg |-> frags]

\* errors.Wrap(err, text): nil stays nil; otherwise "text: cause", and the
\* result is no longer a mautrix.HTTPError.
Wrap(err, text) ==
    IF err.nil THEN NilErr
    ELSE [nil |-> FALSE, typed |-> FALSE, code |-> err.code,
          msg |-> <<Lit(text), Lit(": ")>> \o err.msg]

\* The fixed texts (of the source and of the modelled server replies) that
\* contain "404", and those that contain "not found" once lowercased.
LitsWith404 == {}

LitsWithNotFound == {"Not found", "matrix access token not found in credentials"}

RECURSIVE MsgChars(_)

\* err.Error() as characters: the run-time texts character by character, in
\* order; a fixed text stands as one element (no fixed text ends or begins
\* with part of "404" or of "not found").
MsgChars(msg) ==
    IF msg = <<>> THEN <<>>
    ELSE (IF msg[1].lit # "" THEN <<msg[1].lit>> ELSE msg[1].dyn)
         \o MsgChars(Tail(msg))

MsgContains404(msg) ==
    \/ \E i \in 1..Len(msg) : msg[i].lit \in LitsWith404
    \/ Contains(MsgChars(msg), Needle404)

MsgContainsNotFound(msg) ==
    \/ \E i \in 1..Len(msg) : msg[i].lit \in LitsWithNotFound
    \/ Contains(ToLower(MsgChars(msg)), NeedleNotFound)

IsNotFound(err) ==
    IF err.nil THEN FALSE
    ELSE IF err.typed THEN err.code = "M_NOT_FOUND"
    ELSE MsgContains404(err.msg) \/ MsgContainsNotFound(err.msg)

\* validateMatrixID accepting any remainder that holds at least one colon.
validateMatrixIDSomeColon(matrixID, idType) ==
    IF idType = "user" /\ ~HasPrefix(matrixID, "@")
    THEN ErrNew(<<Lit("user ID must start with @")>>)
    ELSE IF idType = "room" /\ ~HasPrefix(matrixID, "!")
    THEN ErrNew(<<Lit("room ID must start with !")>>)
    ELSE IF idType = "alias" /\ ~HasPrefix(matrixID, "#")
    THEN ErrNew(<<Lit("room alias must start with #")>>)
    ELSE IF SplitCount(Tail(matrixID), ":") < 2
    THEN ErrNew(<<Lit("invalid Matrix ID format: "), Dyn(matrixID)>>)
    ELSE NilErr

validateMatrixID(matrixID, idType) ==
    IF idType = "user" /\ ~HasPrefix(matrixID, "@")
    THEN ErrNew(<<Lit("user ID must start with @")>>)
    ELSE IF idType = "room" /\ ~HasPrefix(matrixID, "!")
    THEN ErrNew(<<Lit("room ID must start with !")>>)
    ELSE IF idType = "alias" /\ ~HasPrefix(matrixID, "#")
    THEN ErrNew(<<Lit("room alias must start with #")>>)
    ELSE IF SplitCount(Tail(matrixID), ":") # 2
    THEN ErrNew(<<Lit("invalid Matrix ID format: "), Dyn(matrixID)>>)
    ELSE NilErr

-----------------------------------------------------------------------------
(* What happens to the requests of one call.  A call blocks on each of its  *)
(* requests in turn, and the homeserver serves other clients in between.   *)
(* down holds the ordinals of the requests the server answers with 500;    *)
(* env holds, for the ordinal of a request, the server as other clients    *)
(* left it just before that request arrived; limit, when set, is the       *)
(* number of requests the call has sent so far: the call is blocked on the *)
(* answer to that one and has sent none after it.                          *)

\* Every request is answered, no other client acts, the call runs to its end.
NoFaults == [down |-> {}, env |-> {}, limit |-> None]

\* Request n is past the one the call is blocked on: it is not sent.
Unsent(fails, n) == IsSet(fails.limit) /\ n > Deref(fails.limit)

\* Request n is answered with 500.
Failing(fails, n) == n \in fails.down

\* The server that request n of the call meets, s0 being the server as the
\* call's earlier requests left it.
Before(s0, fails, n) ==
    IF \E e \in fails.env : e.at = n
    THEN (CHOOSE e \in fails.env : e.at = n).srv
    ELSE s0

-----------------------------------------------------------------------------
(* The homeserver's replies.  A request that fails is answered with 500.    *)

ServerText(status) ==
    CASE status = 404 -> "Not found"
      [] status = 400 -> "Bad request"
      [] status = 409 -> "Room alias already exists"
      [] OTHER -> "Internal server error"

ServerCode(status) ==
    CASE status = 404 -> "M_NOT_FOUND"
      [] status = 400 -> "M_INVALID_PARAM"
      [] OTHER -> "M_UNKNOWN"

\* adminClient.handleResponse for a status >= 400.
AdminStatusErr(status) ==
    ErrNew(<<Lit("admin API request failed with status "), Dyn(StatusText(status)),
             Lit(": "), Lit(ServerText(status))>>)

\* The mautrix.HTTPError that a client-API call returns for a status >= 400:
\* "failed to METHOD path: CODE (HTTP status): text", the path being
\* prefix, identifier, suffix.
MautrixErr(method, path, id, suffix, status) ==
    [nil |-> FALSE, typed |-> TRUE, code |-> ServerCode(status),
     msg |-> <<Lit("failed to "), Lit(method), Lit(" "), Lit(path), Dyn(id),
               Lit(suffix), Lit(": "), Lit(ServerCode(status)), Lit(" (HTTP "),
               Dyn(StatusText(status)), Lit("): "), Lit(ServerText(status))>>]

Req(api, method, path, id, body) ==
    [api |-> api, method |-> method, path |-> path, id |-> id, body |-> body]

NoBody == [none |-> TRUE]

\* The outcome of a wire-client step: its error, its value, the server state
\* it leaves and the HTTP requests it sent.
Out(err, val, s, http) == [err |-> err, val |-> val, srv |-> s, http |-> http]

-----------------------------------------------------------------------------
(* Wire types of the user operations (internal/clients types) *)

ZeroUser ==
    [UserID |-> NoText, DisplayName |-> "", AvatarURL |-> "", Admin |-> FALSE,
     Deactivated |-> FALSE, CreationTime |-> None, LastSeenTime |-> None,
     UserType |-> "", ExternalIDs |-> <<>>, Devices |-> <<>>]

\* The server's record of an account that does not exist.
AbsentUser ==
    [exists |-> FALSE, displayname |-> "", avatar_url |-> "", admin |-> FALSE,
     deactivated |-> FALSE, user_type |-> "", external_ids |-> <<>>]

\* The JSON the admin API returns for the account userID of server s,
\* decoded into User.  UserID is what the reply holds under the key user_id:
\* the ID of the account on a server whose replies carry that key, and the
\* zero value on a server whose replies name the account under another key.
UserOfServer(s, userID) ==
    [ZeroUser EXCEPT !.UserID = IF s.user_id_key THEN userID ELSE NoText,
                     !.DisplayName = s.users[userID].displayname,
                     !.AvatarURL = s.users[userID].avatar_url,
                     !.Admin = s.users[userID].admin,
                     !.Deactivated = s.users[userID].deactivated,
                     !.UserType = s.users[userID].user_type,
                     !.ExternalIDs = s.users[userID].external_ids]

\* id.ParseContentURI accepts mxc://server/media only.
ValidContentURIs == {"mxc://x/a", "mxc://x/b"}

-----------------------------------------------------------------------------
(* adminClient: user operations *)

\* PUT /_synapse/admin/v2/users/{id}: creates the account or modifies it.
\* Fields the JSON body omits (omitempty) keep their value.
ServerPutUser(s, userID, body) ==
    LET old == s.users[userID]
        new == [exists |-> TRUE,
                displayname |-> IF body.DisplayName # "" THEN body.DisplayName
                                ELSE old.displayname,
                avatar_url |-> IF body.AvatarURL # "" THEN body.AvatarURL
                               ELSE old.avatar_url,
                admin |-> body.Admin,
                deactivated |-> body.Deactivated,
                user_type |-> IF body.UserType # "" THEN body.UserType
                              ELSE old.user_type,
                external_ids |-> IF body.ExternalIDs # <<>> THEN body.ExternalIDs
                                 ELSE old.external_ids]
    IN [s EXCEPT !.users[userID] = new]

adminPutUser(s0, userID, userSpec, fails, n0) ==
    LET s == Before(s0, fails, n0 + 1)
        req == Req("admin", "PUT", "/_synapse/admin/v2/users/", userID, userSpec)
    IN IF Unsent(fails, n0 + 1)
       THEN Out(AdminStatusErr(500), ZeroUser, s0, <<>>)
       ELSE IF Failing(fails, n0 + 1)
       THEN Out(AdminStatusErr(500), ZeroUser, s, <<req>>)
       ELSE IF userID \notin ServerUserIDs
       THEN Out(AdminStatusErr(400), ZeroUser, s, <<req>>)
       ELSE LET t == ServerPutUser(s, userID, userSpec)
            IN Out(NilErr, UserOfServer(t, userID), t, <<req>>)

createUser(s, userSpec, fails, n0) ==
    adminPutUser(s, userSpec.UserID, userSpec, fails, n0)

updateUser(s, userID, userSpec, fails, n0) ==
    adminPutUser(s, userID, userSpec, fails, n0)

getUser(s0, userID, fails, n0) ==
    LET s == Before(s0, fails, n0 + 1)
        req == Req("admin", "GET", "/_synapse/admin/v2/users/", userID, NoBody)
    IN IF Unsent(fails, n0 + 1)
       THEN Out(AdminStatusErr(500), ZeroUser, s0, <<>>)
       ELSE IF Failing(fails, n0 + 1)
       THEN Out(AdminStatusErr(500), ZeroUser, s, <<req>>)
       ELSE IF userID \notin ServerUserIDs \/ ~s.users[userID].exists
       THEN Out(AdminStatusErr(404), ZeroUser, s, <<req>>)
       ELSE Out(NilErr, UserOfServer(s, userID), s, <<req>>)

\* POST /_synapse/admin/v1/deactivate/{id}.  With erase the server also
\* removes the profile; without it the account stays, deactivated.
ServerDeactivate(s, userID, body) ==
    IF body.erase
    THEN [s EXCEPT !.users[userID] = [AbsentUser EXCEPT !.exists = TRUE,
                                                        !.deactivated = TRUE]]
    ELSE [s EXCEPT !.users[userID].deactivated = TRUE]

\* deactivateUser asking the server to erase the account.
deactivateUserErasing(s0, userID, fails, n0) ==
    LET s == Before(s0, fails, n0 + 1)
        body == [erase |-> TRUE]
        req == Req("admin", "POST", "/_synapse/admin/v1/deactivate/", userID, body)
    IN IF Unsent(fails, n0 + 1)
       THEN Out(AdminStatusErr(500), FALSE, s0, <<>>)
       ELSE IF Failing(fails, n0 + 1)
       THEN Out(AdminStatusErr(500), FALSE, s, <<req>>)
       ELSE IF userID \notin ServerUserIDs \/ ~s.users[userID].exists
       THEN Out(AdminStatusErr(404), FALSE, s, <<req>>)
       ELSE Out(NilErr, TRUE, ServerDeactivate(s, userID, body), <<req>>)

deactivateUser(s0, userID, fails, n0) ==
    LET s == Before(s0, fails, n0 + 1)
        body == [erase |-> FALSE]
        req == Req("admin", "POST", "/_synapse/admin/v1/deactivate/", userID, body)
    IN IF Unsent(fails, n0 + 1)
       THEN Out(AdminStatusErr(500), FALSE, s0, <<>>)
       ELSE IF Failing(fails, n0 + 1)
       THEN Out(AdminStatusErr(500), FALSE, s, <<req>>)
       ELSE IF userID \notin ServerUserIDs \/ ~s.users[userID].exists
       THEN Out(AdminStatusErr(404), FALSE, s, <<req>>)
       ELSE Out(NilErr, TRUE, ServerDeactivate(s, userID, body), <<req>>)

-----------------------------------------------------------------------------
(* matrixClient: user operations *)

\* mautrix GetProfile / SetDisplayName / SetAvatarURL.  The two setters take
\* no user ID: they act on the account the client is logged in as.
ClientGetProfile(s0, userID, fails, n0) ==
    LET s == Before(s0, fails, n0 + 1)
        path == "/_matrix/client/v3/profile/"
        req == Req("client", "GET", path, userID, NoBody)
    IN IF Unsent(fails, n0 + 1)
       THEN Out(MautrixErr("GET", path, userID, "", 500), ZeroUser, s0, <<>>)
       ELSE IF Failing(fails, n0 + 1)
       THEN Out(MautrixErr("GET", path, userID, "", 500), ZeroUser, s, <<req>>)
       ELSE IF userID \notin ServerUserIDs \/ ~s.users[userID].exists
       THEN Out(MautrixErr("GET", path, userID, "", 404), ZeroUser, s, <<req>>)
       ELSE Out(NilErr, [DisplayName |-> s.users[userID].displayname,
                         AvatarURL |-> s.users[userID].avatar_url], s, <<req>>)

ClientSetProfile(s0, field, value, fails, n0) ==
    LET s == Before(s0, fails, n0 + 1)
        path == "/_matrix/client/v3/profile/"
        req == Req("client", "PUT", path, UP, [field |-> field, value |-> value])
    IN IF Unsent(fails, n0 + 1)
       THEN Out(MautrixErr("PUT", path, UP, field, 500), FALSE, s0, <<>>)
       ELSE IF Failing(fails, n0 + 1)
       THEN Out(MautrixErr("PUT", path, UP, field, 500), FALSE, s, <<req>>)
       ELSE Out(NilErr, TRUE,
                IF field = "displayname"
                THEN [s EXCEPT !.users[UP].displayname = value]
                ELSE [s EXCEPT !.users[UP].avatar_url = value],
                <<req>>)

CreateUser(s, admin, userSpec, fails, n0) ==
    IF admin THEN createUser(s, userSpec, fails, n0)
    ELSE Out(ErrNew(<<Lit("user creation requires admin API access")>>),
             ZeroUser, s, <<>>)

GetUser(s, admin, userID, fails, n0) ==
    LET v == validateMatrixID(userID, "user")
    IN IF ~v.nil THEN Out(Wrap(v, "invalid user ID"), ZeroUser, s, <<>>)
       ELSE IF admin THEN getUser(s, userID, fails, n0)
       ELSE LET p == ClientGetProfile(s, userID, fails, n0)
            IN IF ~p.err.nil
               THEN Out(Wrap(p.err, "failed to get user profile"), ZeroUser, p.srv,
                        p.http)
               ELSE Out(NilErr,
                        [ZeroUser EXCEPT !.UserID = userID,
                                         !.DisplayName = p.val.DisplayName,
                                         !.AvatarURL = p.val.AvatarURL],
                        p.srv, p.http)

UpdateUser(s, admin, userID, userSpec, fails, n0) ==
    LET v == validateMatrixID(userID, "user")
    IN IF ~v.nil THEN Out(Wrap(v, "invalid user ID"), ZeroUser, s, <<>>)
       ELSE IF admin THEN updateUser(s, userID, userSpec, fails, n0)
       ELSE
         LET d == IF userSpec.DisplayName # ""
                  THEN ClientSetProfile(s, "displayname", userSpec.DisplayName, fails, n0)
                  ELSE Out(NilErr, TRUE, s, <<>>)
         IN IF ~d.err.nil
            THEN Out(Wrap(d.err, "failed to set display name"), ZeroUser, d.srv, d.http)
            ELSE IF userSpec.AvatarURL # "" /\ userSpec.AvatarURL \notin ValidContentURIs
            THEN Out(Wrap(ErrNew(<<Lit("invalid content URI")>>), "invalid avatar URL"),
                     ZeroUser, d.srv, d.http)
            ELSE
              LET a == IF userSpec.AvatarURL # ""
                       THEN ClientSetProfile(d.srv, "avatar_url", userSpec.AvatarURL,
                                             fails, n0 + Len(d.http))
                       ELSE Out(NilErr, TRUE, d.srv, <<>>)
              IN IF ~a.err.nil
                 THEN Out(Wrap(a.err, "failed to set avatar URL"), ZeroUser, a.srv,
                          d.http \o a.http)
                 ELSE LET g == GetUser(a.srv, admin, userID, fails,
                                       n0 + Len(d.http) + Len(a.http))
                      IN Out(g.err, g.val, g.srv, d.http \o a.http \o g.http)

\* DeactivateUser validating the user ID before it looks for the admin client.
DeactivateUserValidatingFirst(s, admin, userID, fails, n0) ==
    LET v == validateMatrixID(userID, "user")
    IN IF ~v.nil THEN Out(Wrap(v, "invalid user ID"), FALSE, s, <<>>)
       ELSE IF ~admin
       THEN Out(ErrNew(<<Lit("user deactivation requires admin API access")>>),
                FALSE, s, <<>>)
       ELSE deactivateUser(s, userID, fails, n0)

DeactivateUser(s, admin, userID, fails, n0) ==
    IF ~admin
    THEN Out(ErrNew(<<Lit("user deactivation requires admin API access")>>), FALSE, s, <<>>)
    ELSE LET v == validateMatrixID(userID, "user")
         IN IF ~v.nil THEN Out(Wrap(v, "invalid user ID"), FALSE, s, <<>>)
            ELSE deactivateUser(s, userID, fails, n0)

-----------------------------------------------------------------------------
(* Managed objects: metadata annotations, spec.forProvider and status *)

AnnotationKeyExternalName == "crossplane.io/external-name"

\* map lookup: the zero value for a missing key.
GetAnnotation(c, key) ==
    IF key \in DOMAIN c.annotations THEN c.annotations[key] ELSE NoText

\* meta.GetExternalName
GetExternalName(c) == GetAnnotation(c, AnnotationKeyExternalName)

\* meta.SetExternalName: adds the annotation to the ones the object has.
SetExternalName(c, name) ==
    [c EXCEPT !.annotations =
        [k \in DOMAIN c.annotations \cup {AnnotationKeyExternalName} |->
            IF k = AnnotationKeyExternalName THEN name ELSE c.annotations[k]]]

\* ObjectMeta.SetAnnotations: replaces the whole map.
SetAnnotations(c, annotations) == [c EXCEPT !.annotations = annotations]

\* xpv1.Available()
Available == [type |-> "Ready", status |-> "True", reason |-> "Available"]

\* ConditionedStatus.SetConditions: replaces the condition of the same type.
SetConditions(c, cond) ==
    [c EXCEPT !.status.conditions =
        {x \in c.status.conditions : x.type # cond.type} \cup {cond}]

Call(name, args) == [name |-> name, args |-> args]

\* What a reconciler method returns and does: the object and the server as
\* it leaves them, its error, the fields of its result, the wire-client
\* methods it called and the HTTP requests those sent.
Result(c, s, err, exists, upToDate, calls, http) ==
    [cr |-> c, srv |-> s, err |-> err, exists |-> exists, upToDate |-> upToDate,
     calls |-> calls, http |-> http]

-----------------------------------------------------------------------------
(* User reconciler *)

errCreateUser == "cannot create Matrix user"

errGetUser == "cannot get Matrix user"

errUpdateUser == "cannot update Matrix user"

errDeactivateUser == "cannot deactivate Matrix user"

ConvertExternalIDSpec(extID) ==
    [Medium |-> extID.Medium, Address |-> extID.Address,
     Validated |-> IF IsSet(extID.Validated) THEN Deref(extID.Validated) ELSE FALSE]

generateUserSpec(c) ==
    LET p == c.spec
    IN [UserID |-> IF IsSet(p.UserID) THEN Deref(p.UserID) ELSE NoText,
        Localpart |-> IF IsSet(p.Localpart) THEN Deref(p.Localpart) ELSE "",
        Password |-> IF IsSet(p.Password) THEN Deref(p.Password) ELSE "",
        DisplayName |-> IF IsSet(p.DisplayName) THEN Deref(p.DisplayName) ELSE "",
        AvatarURL |-> IF IsSet(p.AvatarURL) THEN Deref(p.AvatarURL) ELSE "",
        Admin |-> IF IsSet(p.Admin) THEN Deref(p.Admin) ELSE FALSE,
        Deactivated |-> IF IsSet(p.Deactivated) THEN Deref(p.Deactivated) ELSE FALSE,
        UserType |-> IF IsSet(p.UserType) THEN Deref(p.UserType) ELSE "",
        ExternalIDs |-> [i \in 1..Len(p.ExternalIDs) |->
                            ConvertExternalIDSpec(p.ExternalIDs[i])],
        ExpireTime |-> p.ExpireTime]

generateUserObservation(user) ==
    [UserID |-> user.UserID, DisplayName |-> user.DisplayName,
     AvatarURL |-> user.AvatarURL, Admin |-> user.Admin,
     Deactivated |-> user.Deactivated, UserType |-> user.UserType,
     CreationTime |-> user.CreationTime, LastSeenTime |-> user.LastSeenTime,
     ExternalIDs |-> [i \in 1..Len(user.ExternalIDs) |->
                         [Medium |-> user.ExternalIDs[i].Medium,
                          Address |-> user.ExternalIDs[i].Address,
                          Validated |-> Some(user.ExternalIDs[i].Validated)]],
     Devices |-> user.Devices]

isUserUpToDate(c, user) ==
    LET p == c.spec
    IN IF IsSet(p.DisplayName) /\ Deref(p.DisplayName) # user.DisplayName THEN FALSE
       ELSE IF IsSet(p.AvatarURL) /\ Deref(p.AvatarURL) # user.AvatarURL THEN FALSE
       ELSE IF IsSet(p.Admin) /\ Deref(p.Admin) # user.Admin THEN FALSE
       ELSE IF IsSet(p.Deactivated) /\ Deref(p.Deactivated) # user.Deactivated THEN FALSE
       ELSE IF IsSet(p.UserType) /\ Deref(p.UserType) # user.UserType THEN FALSE
       ELSE TRUE

UserObserve(c, s, admin, fails) ==
    LET userID == GetExternalName(c)
    IN IF userID = NoText
       THEN Result(c, s, NilErr, FALSE, FALSE, <<>>, <<>>)
       ELSE
         LET r == GetUser(s, admin, userID, fails, 0)
             calls == <<Call("GetUser", <<userID>>)>>
         IN IF ~r.err.nil
            THEN IF IsNotFound(r.err)
                 THEN Result(c, r.srv, NilErr, FALSE, FALSE, calls, r.http)
                 ELSE Result(c, r.srv, Wrap(r.err, errGetUser), FALSE, FALSE,
                             calls, r.http)
            ELSE Result(SetConditions([c EXCEPT !.status.atProvider =
                                            generateUserObservation(r.val)],
                                      Available),
                        r.srv, NilErr, TRUE, isUserUpToDate(c, r.val), calls, r.http)

UserCreate(c, s, admin, fails) ==
    LET userSpec == generateUserSpec(c)
        r == CreateUser(s, admin, userSpec, fails, 0)
        calls == <<Call("CreateUser", <<userSpec>>)>>
    IN IF ~r.err.nil
       THEN Result(c, r.srv, Wrap(r.err, errCreateUser), FALSE, FALSE, calls, r.http)
       ELSE Result(SetExternalName(c, r.val.UserID), r.srv, NilErr, FALSE, FALSE,
                   calls, r.http)

UserUpdate(c, s, admin, fails) ==
    LET userID == GetExternalName(c)
        userSpec == generateUserSpec(c)
        r == UpdateUser(s, admin, userID, userSpec, fails, 0)
        calls == <<Call("UpdateUser", <<userID, userSpec>>)>>
    IN IF ~r.err.nil
       THEN Result(c, r.srv, Wrap(r.err, errUpdateUser), FALSE, FALSE, calls, r.http)
       ELSE Result(c, r.srv, NilErr, FALSE, FALSE, calls, r.http)

\* UserDelete without its test of the external name.
UserDeleteAlwaysCall(c, s, admin, fails) ==
    LET userID == GetExternalName(c)
        r == DeactivateUser(s, admin, userID, fails, 0)
    IN Result(c, r.srv, Wrap(r.err, errDeactivateUser), FALSE, FALSE,
              <<Call("DeactivateUser", <<userID>>)>>, r.http)

UserDelete(c, s, admin, fails) ==
    LET userID == GetExternalName(c)
    IN IF userID = NoText
       THEN Result(c, s, NilErr, FALSE, FALSE, <<>>, <<>>)
       ELSE LET r == DeactivateUser(s, admin, userID, fails, 0)
            IN Result(c, r.srv, Wrap(r.err, errDeactivateUser), FALSE, FALSE,
                      <<Call("DeactivateUser", <<userID>>)>>, r.http)

-----------------------------------------------------------------------------
(* matrixClient: room alias operations.  The server keeps, for each alias,  *)
(* the room it is bound to (NoText: bound to none) and answers 404         *)
(* M_NOT_FOUND for an alias that is not bound.                             *)

AliasPath == "/_matrix/client/v3/directory/room/"

AliasBound(s, alias) == alias \in ServerAliases /\ s.aliases[alias] # NoText

CreateRoomAlias(s0, alias, roomID, fails, n0) ==
    LET s == Before(s0, fails, n0 + 1)
        va == validateMatrixID(alias, "alias")
        vr == validateMatrixID(roomID, "room")
        req == Req("client", "PUT", AliasPath, alias, [room_id |-> roomID])
    IN IF ~va.nil THEN Out(Wrap(va, "invalid alias"), FALSE, s0, <<>>)
       ELSE IF ~vr.nil THEN Out(Wrap(vr, "invalid room ID"), FALSE, s0, <<>>)
       ELSE IF Unsent(fails, n0 + 1)
       THEN Out(Wrap(MautrixErr("PUT", AliasPath, alias, "", 500),
                     "failed to create room alias"), FALSE, s0, <<>>)
       ELSE IF Failing(fails, n0 + 1)
       THEN Out(Wrap(MautrixErr("PUT", AliasPath, alias, "", 500),
                     "failed to create room alias"), FALSE, s, <<req>>)
       ELSE IF alias \notin ServerAliases
       THEN Out(Wrap(MautrixErr("PUT", AliasPath, alias, "", 400),
                     "failed to create room alias"), FALSE, s, <<req>>)
       ELSE IF AliasBound(s, alias)
       THEN Out(Wrap(MautrixErr("PUT", AliasPath, alias, "", 409),
                     "failed to create room alias"), FALSE, s, <<req>>)
       ELSE Out(NilErr, TRUE, [s EXCEPT !.aliases[alias] = roomID], <<req>>)

GetRoomAlias(s0, alias, fails, n0) ==
    LET s == Before(s0, fails, n0 + 1)
        va == validateMatrixID(alias, "alias")
        req == Req("client", "GET", AliasPath, alias, NoBody)
        none == [Alias |-> NoText, RoomID |-> NoText]
    IN IF ~va.nil THEN Out(Wrap(va, "invalid alias"), none, s0, <<>>)
       ELSE IF Unsent(fails, n0 + 1)
       THEN Out(Wrap(MautrixErr("GET", AliasPath, alias, "", 500),
                     "failed to resolve alias"), none, s0, <<>>)
       ELSE IF Failing(fails, n0 + 1)
       THEN Out(Wrap(MautrixErr("GET", AliasPath, alias, "", 500),
                     "failed to resolve alias"), none, s, <<req>>)
       ELSE IF ~AliasBound(s, alias)
       THEN Out(Wrap(MautrixErr("GET", AliasPath, alias, "", 404),
                     "failed to resolve alias"), none, s, <<req>>)
       ELSE Out(NilErr, [Alias |-> alias, RoomID |-> s.aliases[alias]], s, <<req>>)

DeleteRoomAlias(s0, alias, fails, n0) ==
    LET s == Before(s0, fails, n0 + 1)
        va == validateMatrixID(alias, "alias")
        req == Req("client", "DELETE", AliasPath, alias, NoBody)
    IN IF ~va.nil THEN Out(Wrap(va, "invalid alias"), FALSE, s0, <<>>)
       ELSE IF Unsent(fails, n0 + 1)
       THEN Out(Wrap(MautrixErr("DELETE", AliasPath, alias, "", 500),
                     "failed to delete room alias"), FALSE, s0, <<>>)
       ELSE IF Failing(fails, n0 + 1)
       THEN Out(Wrap(MautrixErr("DELETE", AliasPath, alias, "", 500),
                     "failed to delete room alias"), FALSE, s, <<req>>)
       ELSE IF ~AliasBound(s, alias)
       THEN Out(Wrap(MautrixErr("DELETE", AliasPath, alias, "", 404),
                     "failed to delete room alias"), FALSE, s, <<req>>)
       ELSE Out(NilErr, TRUE, [s EXCEPT !.aliases[alias] = NoText], <<req>>)

-----------------------------------------------------------------------------
(* RoomAlias reconciler *)

errCreateRoomAlias == "cannot create Matrix room alias"

errGetRoomAlias == "cannot get Matrix room alias"

errDeleteRoomAlias == "cannot delete Matrix room alias"

\* The instant time.Now() returns.
Now == "now"

generateRoomAliasObservation(roomAlias) ==
    [Alias |-> roomAlias.Alias, RoomID |-> roomAlias.RoomID, IsCanonical |-> FALSE,
     IsPublished |-> TRUE, CreationTime |-> Some(Now), Servers |-> <<>>]

isRoomAliasUpToDate(c, roomAlias) ==
    IF c.spec.RoomID # roomAlias.RoomID THEN FALSE ELSE TRUE

RoomAliasObserve(c, s, admin, fails) ==
    LET alias == c.spec.Alias
        r == GetRoomAlias(s, alias, fails, 0)
        calls == <<Call("GetRoomAlias", <<alias>>)>>
    IN IF ~r.err.nil
       THEN IF IsNotFound(r.err)
            THEN Result(c, r.srv, NilErr, FALSE, FALSE, calls, r.http)
            ELSE Result(c, r.srv, Wrap(r.err, errGetRoomAlias), FALSE, FALSE,
                        calls, r.http)
       ELSE Result(SetConditions([c EXCEPT !.status.atProvider =
                                       generateRoomAliasObservation(r.val)],
                                 Available),
                   r.srv, NilErr, TRUE, isRoomAliasUpToDate(c, r.val), calls, r.http)

RoomAliasCreate(c, s, admin, fails) ==
    LET alias == c.spec.Alias
        roomID == c.spec.RoomID
        r == CreateRoomAlias(s, alias, roomID, fails, 0)
        calls == <<Call("CreateRoomAlias", <<alias, roomID>>)>>
    IN IF ~r.err.nil
       THEN Result(c, r.srv, Wrap(r.err, errCreateRoomAlias), FALSE, FALSE,
                   calls, r.http)
       ELSE Result(SetExternalName(c, alias), r.srv, NilErr, FALSE, FALSE,
                   calls, r.http)

\* RoomAliasUpdate giving up when the delete reports not-found.
RoomAliasUpdateAbortOnAnyError(c, s, admin, fails) ==
    LET alias == c.spec.Alias
        roomID == c.spec.RoomID
        d == DeleteRoomAlias(s, alias, fails, 0)
        dcall == <<Call("DeleteRoomAlias", <<alias>>)>>
    IN IF ~d.err.nil
       THEN Result(c, d.srv, Wrap(d.err, errDeleteRoomAlias), FALSE, FALSE,
                   dcall, d.http)
       ELSE
         LET r == CreateRoomAlias(d.srv, alias, roomID, fails, Len(d.http))
             calls == dcall \o <<Call("CreateRoomAlias", <<alias, roomID>>)>>
         IN IF ~r.err.nil
            THEN Result(c, r.srv, Wrap(r.err, errCreateRoomAlias), FALSE, FALSE,
                        calls, d.http \o r.http)
            ELSE Result(c, r.srv, NilErr, FALSE, FALSE, calls, d.http \o r.http)

\* RoomAliasUpdate binding the alias to its old room again when the create
\* fails.
RoomAliasUpdateRestoring(c, s, admin, fails) ==
    LET alias == c.spec.Alias
        roomID == c.spec.RoomID
        d == DeleteRoomAlias(s, alias, fails, 0)
        dcall == <<Call("DeleteRoomAlias", <<alias>>)>>
    IN IF ~d.err.nil /\ ~IsNotFound(d.err)
       THEN Result(c, d.srv, Wrap(d.err, errDeleteRoomAlias), FALSE, FALSE,
                   dcall, d.http)
       ELSE
         LET r == CreateRoomAlias(d.srv, alias, roomID, fails, Len(d.http))
             calls == dcall \o <<Call("CreateRoomAlias", <<alias, roomID>>)>>
             back == IF d.err.nil
                     THEN CreateRoomAlias(r.srv, alias, s.aliases[alias], fails,
                                          Len(d.http) + Len(r.http))
                     ELSE Out(NilErr, TRUE, r.srv, <<>>)
         IN IF ~r.err.nil
            THEN Result(c, back.srv, Wrap(r.err, errCreateRoomAlias), FALSE, FALSE,
                        calls, d.http \o r.http \o back.http)
            ELSE Result(c, r.srv, NilErr, FALSE, FALSE, calls, d.http \o r.http)

RoomAliasUpdate(c, s, admin, fails) ==
    LET alias == c.spec.Alias
        roomID == c.spec.RoomID
        d == DeleteRoomAlias(s, alias, fails, 0)
        dcall == <<Call("DeleteRoomAlias", <<alias>>)>>
    IN IF ~d.err.nil /\ ~IsNotFound(d.err)
       THEN Result(c, d.srv, Wrap(d.err, errDeleteRoomAlias), FALSE, FALSE,
                   dcall, d.http)
       ELSE
         LET r == CreateRoomAlias(d.srv, alias, roomID, fails, Len(d.http))
             calls == dcall \o <<Call("CreateRoomAlias", <<alias, roomID>>)>>
         IN IF ~r.err.nil
            THEN Result(c, r.srv, Wrap(r.err, errCreateRoomAlias), FALSE, FALSE,
                        calls, d.http \o r.http)
            ELSE Result(c, r.srv, NilErr, FALSE, FALSE, calls, d.http \o r.http)

RoomAliasDelete(c, s, admin, fails) ==
    LET ext == GetExternalName(c)
        alias == IF ext = NoText THEN c.spec.Alias ELSE ext
    IN IF alias = NoText
       THEN Result(c, s, NilErr, FALSE, FALSE, <<>>, <<>>)
       ELSE LET r == DeleteRoomAlias(s, alias, fails, 0)
            IN Result(c, r.srv, Wrap(r.err, errDeleteRoomAlias), FALSE, FALSE,
                      <<Call("DeleteRoomAlias", <<alias>>)>>, r.http)

-----------------------------------------------------------------------------
(* Rooms on the server: the state events the client reads and writes.  A    *)
(* field at its zero value is a state event the room does not have; the    *)
(* server answers 404 M_NOT_FOUND for it, and for a room it does not have. *)

AbsentRoom ==
    [exists |-> FALSE, name |-> "", topic |-> "", canonical_alias |-> NoText,
     avatar |-> "", guest_access |-> "", history_visibility |-> "",
     join_rules |-> "", encryption |-> "", power_levels |-> None]

RoomPath == "/_matrix/client/v3/rooms/"

RoomExists(s, roomID) == roomID \in ServerRoomIDs /\ s.rooms[roomID].exists

\* The field of the server's room record that a state event type is kept in.
ServerSetState(s, roomID, evType, content) ==
    CASE evType = "m.room.name" -> [s EXCEPT !.rooms[roomID].name = content]
      [] evType = "m.room.topic" -> [s EXCEPT !.rooms[roomID].topic = content]
      [] evType = "m.room.canonical_alias" ->
            [s EXCEPT !.rooms[roomID].canonical_alias = content]
      [] evType = "m.room.avatar" -> [s EXCEPT !.rooms[roomID].avatar = content]
      [] evType = "m.room.guest_access" ->
            [s EXCEPT !.rooms[roomID].guest_access = content]
      [] evType = "m.room.history_visibility" ->
            [s EXCEPT !.rooms[roomID].history_visibility = content]
      [] evType = "m.room.join_rules" -> [s EXCEPT !.rooms[roomID].join_rules = content]
      [] evType = "m.room.encryption" -> [s EXCEPT !.rooms[roomID].encryption = content]
      [] evType = "m.room.power_levels" ->
            [s EXCEPT !.rooms[roomID].power_levels = Some(content)]

ServerHasState(s, roomID, evType) ==
    /\ RoomExists(s, roomID)
    /\ CASE evType = "m.room.name" -> s.rooms[roomID].name # ""
         [] evType = "m.room.topic" -> s.rooms[roomID].topic # ""
         [] evType = "m.room.canonical_alias" -> s.rooms[roomID].canonical_alias # NoText
         [] evType = "m.room.avatar" -> s.rooms[roomID].avatar # ""
         [] evType = "m.room.power_levels" -> IsSet(s.rooms[roomID].power_levels)

ServerGetState(s, roomID, evType) ==
    CASE evType = "m.room.name" -> s.rooms[roomID].name
      [] evType = "m.room.topic" -> s.rooms[roomID].topic
      [] evType = "m.room.canonical_alias" -> s.rooms[roomID].canonical_alias
      [] evType = "m.room.avatar" -> s.rooms[roomID].avatar
      [] evType = "m.room.power_levels" -> Deref(s.rooms[roomID].power_levels)

\* mautrix Client.SendStateEvent with state key "".
SendStateEvent(s0, roomID, evType, content, fails, n0) ==
    LET s == Before(s0, fails, n0 + 1)
        req == Req("client", "PUT", RoomPath, roomID,
                   [type |-> evType, content |-> content])
    IN IF Unsent(fails, n0 + 1)
       THEN Out(MautrixErr("PUT", RoomPath, roomID, evType, 500), FALSE, s0, <<>>)
       ELSE IF Failing(fails, n0 + 1)
       THEN Out(MautrixErr("PUT", RoomPath, roomID, evType, 500), FALSE, s, <<req>>)
       ELSE IF ~RoomExists(s, roomID)
       THEN Out(MautrixErr("PUT", RoomPath, roomID, evType, 404), FALSE, s, <<req>>)
       ELSE Out(NilErr, TRUE, ServerSetState(s, roomID, evType, content), <<req>>)

\* mautrix Client.StateEvent with state key "".
StateEvent(s0, roomID, evType, fails, n0) ==
    LET s == Before(s0, fails, n0 + 1)
        req == Req("client", "GET", RoomPath, roomID, [type |-> evType])
    IN IF Unsent(fails, n0 + 1)
       THEN Out(MautrixErr("GET", RoomPath, roomID, evType, 500), FALSE, s0, <<>>)
       ELSE IF Failing(fails, n0 + 1)
       THEN Out(MautrixErr("GET", RoomPath, roomID, evType, 500), FALSE, s, <<req>>)
       ELSE IF ~ServerHasState(s, roomID, evType)
       THEN Out(MautrixErr("GET", RoomPath, roomID, evType, 404), FALSE, s, <<req>>)
       ELSE Out(NilErr, ServerGetState(s, roomID, evType), s, <<req>>)

-----------------------------------------------------------------------------
(* matrixClient: power level operations *)

getIntValue(ptr, defaultValue) == IF IsSet(ptr) THEN Deref(ptr) ELSE defaultValue

\* PowerLevelContent -> event.PowerLevelsEventContent
PowerLevelsEventContent(pl) ==
    [Users |-> pl.Users, Events |-> pl.Events,
     EventsDefault |-> getIntValue(pl.EventsDefault, 0),
     StateDefaultPtr |-> pl.StateDefault,
     UsersDefault |-> getIntValue(pl.UsersDefault, 0),
     BanPtr |-> pl.Ban, KickPtr |-> pl.Kick, RedactPtr |-> pl.Redact,
     InvitePtr |-> pl.Invite]

\* event.PowerLevelsEventContent -> PowerLevelContent
PowerLevelContentOf(powerContent) ==
    [Users |-> powerContent.Users, Events |-> powerContent.Events,
     EventsDefault |-> Some(powerContent.EventsDefault),
     StateDefault |-> powerContent.StateDefaultPtr,
     UsersDefault |-> Some(powerContent.UsersDefault),
     Ban |-> powerContent.BanPtr, Kick |-> powerContent.KickPtr,
     Redact |-> powerContent.RedactPtr, Invite |-> powerContent.InvitePtr]

ZeroPowerLevelContent ==
    [Users |-> EmptyMap, Events |-> EmptyMap, EventsDefault |-> None,
     StateDefault |-> None, UsersDefault |-> None, Ban |-> None, Kick |-> None,
     Redact |-> None, Invite |-> None]

SetPowerLevels(s, roomID, powerLevels, fails, n0) ==
    LET v == validateMatrixID(roomID, "room")
    IN IF ~v.nil THEN Out(Wrap(v, "invalid room ID"), FALSE, s, <<>>)
       ELSE LET r == SendStateEvent(s, roomID, "m.room.power_levels",
                                    PowerLevelsEventContent(powerLevels.PowerLevels),
                                    fails, n0)
            IN IF ~r.err.nil
               THEN Out(Wrap(r.err, "failed to set power levels"), FALSE, r.srv, r.http)
               ELSE Out(NilErr, TRUE, r.srv, r.http)

GetPowerLevels(s, roomID, fails, n0) ==
    LET v == validateMatrixID(roomID, "room")
    IN IF ~v.nil THEN Out(Wrap(v, "invalid room ID"), ZeroPowerLevelContent, s, <<>>)
       ELSE LET r == StateEvent(s, roomID, "m.room.power_levels", fails, n0)
            IN IF ~r.err.nil
               THEN Out(Wrap(r.err, "failed to get power levels"),
                        ZeroPowerLevelContent, r.srv, r.http)
               ELSE Out(NilErr, PowerLevelContentOf(r.val), r.srv, r.http)

-----------------------------------------------------------------------------
(* PowerLevel reconciler *)

errSetPowerLevels == "cannot set Matrix power levels"

errGetPowerLevels == "cannot get Matrix power levels"

generatePowerLevelSpec(c) ==
    LET p == c.spec
    IN [RoomID |-> p.RoomID,
        PowerLevels |->
            [Users |-> p.Users, Events |-> p.Events,
             EventsDefault |-> IF IsSet(p.EventsDefault) THEN p.EventsDefault ELSE None,
             StateDefault |-> IF IsSet(p.StateDefault) THEN p.StateDefault ELSE None,
             UsersDefault |-> IF IsSet(p.UsersDefault) THEN p.UsersDefault ELSE None,
             Ban |-> IF IsSet(p.Ban) THEN p.Ban ELSE None,
             Kick |-> IF IsSet(p.Kick) THEN p.Kick ELSE None,
             Redact |-> IF IsSet(p.Redact) THEN p.Redact ELSE None,
             Invite |-> IF IsSet(p.Invite) THEN p.Invite ELSE None]]

generatePowerLevelObservation(roomID, powerLevels) ==
    [RoomID |-> roomID, Users |-> powerLevels.Users, Events |-> powerLevels.Events,
     LastModified |-> Some(Now),
     EventsDefault |-> getIntValue(powerLevels.EventsDefault, 0),
     StateDefault |-> getIntValue(powerLevels.StateDefault, 0),
     UsersDefault |-> getIntValue(powerLevels.UsersDefault, 0),
     Ban |-> getIntValue(powerLevels.Ban, 0),
     Kick |-> getIntValue(powerLevels.Kick, 0),
     Redact |-> getIntValue(powerLevels.Redact, 0),
     Invite |-> getIntValue(powerLevels.Invite, 0)]

\* for k, v := range declared: observed[k] exists and equals v
MapEntriesMatch(declared, observed) ==
    \A k \in DOMAIN declared : k \in DOMAIN observed /\ observed[k] = declared[k]

PtrDiffers(declared, observed) ==
    IsSet(declared) /\ IsSet(observed) /\ Deref(declared) # Deref(observed)

\* isPowerLevelUpToDate without the two comparisons of len.
isPowerLevelUpToDateNoCount(c, powerLevels) ==
    LET p == c.spec
    IN IF ~MapEntriesMatch(p.Users, powerLevels.Users) THEN FALSE
       ELSE IF ~MapEntriesMatch(p.Events, powerLevels.Events) THEN FALSE
       ELSE IF PtrDiffers(p.EventsDefault, powerLevels.EventsDefault) THEN FALSE
       ELSE IF PtrDiffers(p.StateDefault, powerLevels.StateDefault) THEN FALSE
       ELSE IF PtrDiffers(p.UsersDefault, powerLevels.UsersDefault) THEN FALSE
       ELSE IF PtrDiffers(p.Ban, powerLevels.Ban) THEN FALSE
       ELSE IF PtrDiffers(p.Kick, powerLevels.Kick) THEN FALSE
       ELSE IF PtrDiffers(p.Redact, powerLevels.Redact) THEN FALSE
       ELSE IF PtrDiffers(p.Invite, powerLevels.Invite) THEN FALSE
       ELSE TRUE

isPowerLevelUpToDate(c, powerLevels) ==
    LET p == c.spec
    IN IF MapLen(p.Users) # MapLen(powerLevels.Users) THEN FALSE
       ELSE IF ~MapEntriesMatch(p.Users, powerLevels.Users) THEN FALSE
       ELSE IF MapLen(p.Events) # MapLen(powerLevels.Events) THEN FALSE
       ELSE IF ~MapEntriesMatch(p.Events, powerLevels.Events) THEN FALSE
       ELSE IF PtrDiffers(p.EventsDefault, powerLevels.EventsDefault) THEN FALSE
       ELSE IF PtrDiffers(p.StateDefault, powerLevels.StateDefault) THEN FALSE
       ELSE IF PtrDiffers(p.UsersDefault, powerLevels.UsersDefault) THEN FALSE
       ELSE IF PtrDiffers(p.Ban, powerLevels.Ban) THEN FALSE
       ELSE IF PtrDiffers(p.Kick, powerLevels.Kick) THEN FALSE
       ELSE IF PtrDiffers(p.Redact, powerLevels.Redact) THEN FALSE
       ELSE IF PtrDiffers(p.Invite, powerLevels.Invite) THEN FALSE
       ELSE TRUE

\* PowerLevelObserve taking every fetch error for not-found.
PowerLevelObserveAnyErrorAbsent(c, s, admin, fails) ==
    LET roomID == c.spec.RoomID
        r == GetPowerLevels(s, roomID, fails, 0)
        calls == <<Call("GetPowerLevels", <<roomID>>)>>
    IN IF ~r.err.nil
       THEN Result(c, r.srv, NilErr, FALSE, FALSE, calls, r.http)
       ELSE Result(SetConditions([c EXCEPT !.status.atProvider =
                                       generatePowerLevelObservation(roomID, r.val)],
                                 Available),
                   r.srv, NilErr, TRUE, isPowerLevelUpToDate(c, r.val), calls, r.http)

PowerLevelObserve(c, s, admin, fails) ==
    LET roomID == c.spec.RoomID
        r == GetPowerLevels(s, roomID, fails, 0)
        calls == <<Call("GetPowerLevels", <<roomID>>)>>
    IN IF ~r.err.nil
       THEN IF IsNotFound(r.err)
            THEN Result(c, r.srv, NilErr, FALSE, FALSE, calls, r.http)
            ELSE Result(c, r.srv, Wrap(r.err, errGetPowerLevels), FALSE, FALSE,
                        calls, r.http)
       ELSE Result(SetConditions([c EXCEPT !.status.atProvider =
                                       generatePowerLevelObservation(roomID, r.val)],
                                 Available),
                   r.srv, NilErr, TRUE, isPowerLevelUpToDate(c, r.val), calls, r.http)

PowerLevelCreate(c, s, admin, fails) ==
    LET powerLevelSpec == generatePowerLevelSpec(c)
        r == SetPowerLevels(s, c.spec.RoomID, powerLevelSpec, fails, 0)
        calls == <<Call("SetPowerLevels", <<c.spec.RoomID, powerLevelSpec>>)>>
    IN IF ~r.err.nil
       THEN Result(c, r.srv, Wrap(r.err, errSetPowerLevels), FALSE, FALSE,
                   calls, r.http)
       ELSE Result(SetExternalName(c, c.spec.RoomID), r.srv, NilErr, FALSE, FALSE,
                   calls, r.http)

PowerLevelUpdate(c, s, admin, fails) ==
    LET powerLevelSpec == generatePowerLevelSpec(c)
        r == SetPowerLevels(s, c.spec.RoomID, powerLevelSpec, fails, 0)
        calls == <<Call("SetPowerLevels", <<c.spec.RoomID, powerLevelSpec>>)>>
    IN IF ~r.err.nil
       THEN Result(c, r.srv, Wrap(r.err, errSetPowerLevels), FALSE, FALSE,
                   calls, r.http)
       ELSE Result(c, r.srv, NilErr, FALSE, FALSE, calls, r.http)

PowerLevelDelete(c, s, admin, fails) ==
    Result(c, s, NilErr, FALSE, FALSE, <<>>, <<>>)

-----------------------------------------------------------------------------
(* Wire types of the room operations *)

ZeroRoom ==
    [RoomID |-> NoText, Name |-> "", Topic |-> "", Alias |-> NoText, AvatarURL |-> "",
     Creator |-> NoText, CreationTime |-> None, RoomVersion |-> "",
     JoinedMembers |-> 0, InvitedMembers |-> 0, Visibility |-> "",
     GuestAccess |-> "", HistoryVisibility |-> "", JoinRules |-> "",
     EncryptionEnabled |-> FALSE, PowerLevels |-> None, State |-> <<>>]

\* The JSON the admin API returns for a room, decoded into Room.
RoomOfServer(roomID, r) ==
    [ZeroRoom EXCEPT !.RoomID = roomID, !.Name = r.name, !.Topic = r.topic,
                     !.Alias = r.canonical_alias, !.AvatarURL = r.avatar,
                     !.GuestAccess = r.guest_access,
                     !.HistoryVisibility = r.history_visibility,
                     !.JoinRules = r.join_rules,
                     !.EncryptionEnabled = (r.encryption # "")]

ServerName == <<"x">>

AlgorithmMegolmV1 == "m.megolm.v1.aes-sha2"

\* The power levels a server gives a new room: the creator at 100.
DefaultPowerLevels ==
    [Users |-> (UP :> 100), Events |-> EmptyMap, EventsDefault |-> 0,
     StateDefaultPtr |-> Some(50), UsersDefault |-> 0, BanPtr |-> Some(50),
     KickPtr |-> Some(50), RedactPtr |-> Some(50), InvitePtr |-> Some(0)]

\* POST /_matrix/client/v3/createRoom: the room gets the next unused ID and
\* the state its preset stands for.
FreshRoomID(s) == CHOOSE r \in ServerRoomIDs : ~s.rooms[r].exists

ServerCreateRoom(s, req) ==
    LET public == req.Preset = "public_chat"
        room == [exists |-> TRUE, name |-> req.Name, topic |-> req.Topic,
                 canonical_alias |-> IF req.RoomAliasName = NoText THEN NoText
                                     ELSE <<"#">> \o req.RoomAliasName \o <<":">>
                                          \o ServerName,
                 avatar |-> "",
                 guest_access |-> IF public THEN "forbidden" ELSE "can_join",
                 history_visibility |-> "shared",
                 join_rules |-> IF public THEN "public" ELSE "invite",
                 encryption |-> "",
                 power_levels |-> IF IsSet(req.PowerLevelOverride)
                                  THEN req.PowerLevelOverride
                                  ELSE Some(DefaultPowerLevels)]
    IN [s EXCEPT !.rooms[FreshRoomID(s)] = room]

ClientCreateRoom(s0, req, fails, n0) ==
    LET s == Before(s0, fails, n0 + 1)
        path == "/_matrix/client/v3/createRoom"
        hreq == Req("client", "POST", path, NoText, req)
    IN IF Unsent(fails, n0 + 1)
       THEN Out(MautrixErr("POST", path, NoText, "", 500), NoText, s0, <<>>)
       ELSE IF Failing(fails, n0 + 1) \/ \A r \in ServerRoomIDs : s.rooms[r].exists
       THEN Out(MautrixErr("POST", path, NoText, "", 500), NoText, s, <<hreq>>)
       ELSE Out(NilErr, FreshRoomID(s), ServerCreateRoom(s, req), <<hreq>>)

-----------------------------------------------------------------------------
(* adminClient: room operations *)

getRoomDetails(s0, roomID, fails, n0) ==
    LET s == Before(s0, fails, n0 + 1)
        req == Req("admin", "GET", "/_synapse/admin/v1/rooms/", roomID, NoBody)
    IN IF Unsent(fails, n0 + 1)
       THEN Out(AdminStatusErr(500), ZeroRoom, s0, <<>>)
       ELSE IF Failing(fails, n0 + 1)
       THEN Out(AdminStatusErr(500), ZeroRoom, s, <<req>>)
       ELSE IF ~RoomExists(s, roomID)
       THEN Out(AdminStatusErr(404), ZeroRoom, s, <<req>>)
       ELSE Out(NilErr, RoomOfServer(roomID, s.rooms[roomID]), s, <<req>>)

\* POST /_synapse/admin/v1/rooms/{id}/delete: the room and the aliases bound
\* to it are removed.
ServerDeleteRoom(s, roomID) ==
    [s EXCEPT !.rooms[roomID] = AbsentRoom,
              !.aliases = [a \in ServerAliases |->
                              IF s.aliases[a] = roomID THEN NoText ELSE s.aliases[a]]]

deleteRoom(s0, roomID, options, fails, n0) ==
    LET s == Before(s0, fails, n0 + 1)
        req == Req("admin", "POST", "/_synapse/admin/v1/rooms/", roomID, options)
    IN IF Unsent(fails, n0 + 1)
       THEN Out(AdminStatusErr(500), FALSE, s0, <<>>)
       ELSE IF Failing(fails, n0 + 1)
       THEN Out(AdminStatusErr(500), FALSE, s, <<req>>)
       ELSE IF ~RoomExists(s, roomID)
       THEN Out(AdminStatusErr(404), FALSE, s, <<req>>)
       ELSE Out(NilErr, TRUE, ServerDeleteRoom(s, roomID), <<req>>)

-----------------------------------------------------------------------------
(* matrixClient: room operations *)

\* The result of a step that followed others: their requests come first.
PrependHttp(http, o) == Out(o.err, o.val, o.srv, http \o o.http)

\* The room the standard-API path of GetRoom builds from its five state
\* reads; a read that failed leaves its field at the zero value.
FallbackRoom(roomID, nameR, topicR, aliasR, avatarR, powerR) ==
    Out(NilErr,
        [ZeroRoom EXCEPT
            !.RoomID = roomID,
            !.Name = IF nameR.err.nil THEN nameR.val ELSE "",
            !.Topic = IF topicR.err.nil THEN topicR.val ELSE "",
            !.Alias = IF aliasR.err.nil /\ aliasR.val # NoText
                      THEN aliasR.val ELSE NoText,
            !.AvatarURL = IF avatarR.err.nil THEN avatarR.val ELSE "",
            !.PowerLevels = IF powerR.err.nil
                            THEN Some(PowerLevelContentOf(powerR.val))
                            ELSE None],
        powerR.srv,
        nameR.http \o topicR.http \o aliasR.http \o avatarR.http \o powerR.http)

\* The five reads one after the other, each meeting the server as it is when
\* the read arrives.
FallbackPowerRead(roomID, fails, n1, nameR, topicR, aliasR, avatarR) ==
    FallbackRoom(roomID, nameR, topicR, aliasR, avatarR,
                 StateEvent(avatarR.srv, roomID, "m.room.power_levels", fails, n1 + 4))

FallbackAvatarRead(roomID, fails, n1, nameR, topicR, aliasR) ==
    FallbackPowerRead(roomID, fails, n1, nameR, topicR, aliasR,
                      StateEvent(aliasR.srv, roomID, "m.room.avatar", fails, n1 + 3))

FallbackAliasRead(roomID, fails, n1, nameR, topicR) ==
    FallbackAvatarRead(roomID, fails, n1, nameR, topicR,
                       StateEvent(topicR.srv, roomID, "m.room.canonical_alias",
                                  fails, n1 + 2))

FallbackTopicRead(roomID, fails, n1, nameR) ==
    FallbackAliasRead(roomID, fails, n1, nameR,
                      StateEvent(nameR.srv, roomID, "m.room.topic", fails, n1 + 1))

GetRoomFallback(s, roomID, fails, n1) ==
    FallbackTopicRead(roomID, fails, n1,
                      StateEvent(s, roomID, "m.room.name", fails, n1))

\* GetRoomAdmin returning what the admin API answered, error or not.
GetRoomAdminNoFallback(a, s, roomID, fails, n0) == a

\* GetRoom once the admin API has answered with a: its room, or on any error
\* the standard-API path.
GetRoomAdmin(a, s, roomID, fails, n0) ==
    IF a.err.nil THEN a
    ELSE PrependHttp(a.http, GetRoomFallback(a.srv, roomID, fails, n0 + Len(a.http)))

GetRoom(s, admin, roomID, fails, n0) ==
    IF ~validateMatrixID(roomID, "room").nil
    THEN Out(Wrap(validateMatrixID(roomID, "room"), "invalid room ID"),
             ZeroRoom, s, <<>>)
    ELSE IF admin
    THEN GetRoomAdmin(getRoomDetails(s, roomID, fails, n0), s, roomID, fails, n0)
    ELSE GetRoomFallback(s, roomID, fails, n0)

\* A state write of CreateRoom or UpdateRoom: the event, and the text its
\* failure is wrapped with.  parse is FALSE when the content is a URI that
\* id.ParseContentURI rejects, which fails the step before any request.
Step(evType, content, text, parse) ==
    [type |-> evType, content |-> content, text |-> text, parse |-> parse]

RECURSIVE RunSteps(_, _, _, _, _)

\* StepSent going on to the remaining writes whatever the outcome of the
\* one sent.
StepSentIgnoringFailure(r, text, roomID, rest, fails, n0) ==
    PrependHttp(r.http, RunSteps(r.srv, roomID, rest, fails, n0 + 1))

\* The writes after the first one was sent with outcome r: its failure ends
\* the sequence.
StepSent(r, text, roomID, rest, fails, n0) ==
    IF ~r.err.nil THEN Out(Wrap(r.err, text), FALSE, r.srv, r.http)
    ELSE PrependHttp(r.http, RunSteps(r.srv, roomID, rest, fails, n0 + 1))

\* The writes in order.
RunSteps(s, roomID, steps, fails, n0) ==
    IF steps = <<>> THEN Out(NilErr, TRUE, s, <<>>)
    ELSE IF ~Head(steps).parse
    THEN Out(Wrap(ErrNew(<<Lit("invalid content URI")>>), "invalid avatar URL"),
             FALSE, s, <<>>)
    ELSE StepSent(SendStateEvent(s, roomID, Head(steps).type, Head(steps).content,
                                 fails, n0),
                  Head(steps).text, roomID, Tail(steps), fails, n0)

\* CreateRoomSteps with the encryption write ahead of the others.
CreateRoomStepsEncryptionFirst(roomSpec) ==
    (IF roomSpec.EncryptionEnabled
     THEN <<Step("m.room.encryption", AlgorithmMegolmV1,
                 "failed to enable encryption", TRUE)>> ELSE <<>>)
    \o (IF roomSpec.GuestAccess # ""
        THEN <<Step("m.room.guest_access", roomSpec.GuestAccess,
                    "failed to set guest access", TRUE)>> ELSE <<>>)
    \o (IF roomSpec.HistoryVisibility # ""
        THEN <<Step("m.room.history_visibility", roomSpec.HistoryVisibility,
                    "failed to set history visibility", TRUE)>> ELSE <<>>)
    \o (IF roomSpec.JoinRules # ""
        THEN <<Step("m.room.join_rules", roomSpec.JoinRules,
                    "failed to set join rules", TRUE)>> ELSE <<>>)
    \o (IF roomSpec.AvatarURL # ""
        THEN <<Step("m.room.avatar", roomSpec.AvatarURL, "failed to set avatar",
                    roomSpec.AvatarURL \in ValidContentURIs)>> ELSE <<>>)

CreateRoomSteps(roomSpec) ==
    (IF roomSpec.GuestAccess # ""
     THEN <<Step("m.room.guest_access", roomSpec.GuestAccess,
                 "failed to set guest access", TRUE)>> ELSE <<>>)
    \o (IF roomSpec.HistoryVisibility # ""
        THEN <<Step("m.room.history_visibility", roomSpec.HistoryVisibility,
                    "failed to set history visibility", TRUE)>> ELSE <<>>)
    \o (IF roomSpec.JoinRules # ""
        THEN <<Step("m.room.join_rules", roomSpec.JoinRules,
                    "failed to set join rules", TRUE)>> ELSE <<>>)
    \o (IF roomSpec.EncryptionEnabled
        THEN <<Step("m.room.encryption", AlgorithmMegolmV1,
                    "failed to enable encryption", TRUE)>> ELSE <<>>)
    \o (IF roomSpec.AvatarURL # ""
        THEN <<Step("m.room.avatar", roomSpec.AvatarURL, "failed to set avatar",
                    roomSpec.AvatarURL \in ValidContentURIs)>> ELSE <<>>)

ReqCreateRoom(roomSpec) ==
    [Name |-> roomSpec.Name, Topic |-> roomSpec.Topic,
     RoomAliasName |-> roomSpec.Alias, Preset |-> roomSpec.Preset,
     Visibility |-> roomSpec.Visibility, RoomVersion |-> roomSpec.RoomVersion,
     CreationContent |-> roomSpec.CreationContent, Invite |-> roomSpec.Invite,
     InitialState |-> roomSpec.InitialState,
     PowerLevelOverride |->
        IF IsSet(roomSpec.PowerLevelOverrides)
        THEN Some(PowerLevelsEventContent(Deref(roomSpec.PowerLevelOverrides)))
        ELSE None]

\* The end of CreateRoom and of UpdateRoom once their writes had outcome w:
\* the error of the write that failed, or the room as GetRoom reads it back.
WrittenThenGetRoom(w, admin, roomID, fails, n0) ==
    IF ~w.err.nil THEN Out(w.err, ZeroRoom, w.srv, w.http)
    ELSE PrependHttp(w.http, GetRoom(w.srv, admin, roomID, fails, n0 + Len(w.http)))

\* CreateRoom once the create request had outcome c.
CreateRoomCreated(c, admin, roomSpec, fails, n0) ==
    IF ~c.err.nil
    THEN Out(Wrap(c.err, "failed to create room"), ZeroRoom, c.srv, c.http)
    ELSE PrependHttp(c.http,
            WrittenThenGetRoom(RunSteps(c.srv, c.val, CreateRoomSteps(roomSpec),
                                        fails, n0 + Len(c.http)),
                               admin, c.val, fails, n0 + Len(c.http)))

CreateRoom(s, admin, roomSpec, fails, n0) ==
    CreateRoomCreated(ClientCreateRoom(s, ReqCreateRoom(roomSpec), fails, n0),
                      admin, roomSpec, fails, n0)

\* UpdateRoomSteps without the write of the topic.
UpdateRoomStepsNameOnly(roomSpec) ==
    IF roomSpec.Name # ""
    THEN <<Step("m.room.name", roomSpec.Name, "failed to update room name", TRUE)>>
    ELSE <<>>

UpdateRoomSteps(roomSpec) ==
    (IF roomSpec.Name # ""
     THEN <<Step("m.room.name", roomSpec.Name, "failed to update room name", TRUE)>>
     ELSE <<>>)
    \o (IF roomSpec.Topic # ""
        THEN <<Step("m.room.topic", roomSpec.Topic, "failed to update room topic",
                    TRUE)>> ELSE <<>>)

UpdateRoom(s, admin, roomID, roomSpec, fails, n0) ==
    IF ~validateMatrixID(roomID, "room").nil
    THEN Out(Wrap(validateMatrixID(roomID, "room"), "invalid room ID"),
             ZeroRoom, s, <<>>)
    ELSE WrittenThenGetRoom(RunSteps(s, roomID, UpdateRoomSteps(roomSpec), fails, n0),
                            admin, roomID, fails, n0)

DeleteRoom(s, admin, roomID, fails, n0) ==
    IF ~admin
    THEN Out(ErrNew(<<Lit("room deletion requires admin API access")>>), FALSE, s, <<>>)
    ELSE LET v == validateMatrixID(roomID, "room")
         IN IF ~v.nil THEN Out(Wrap(v, "invalid room ID"), FALSE, s, <<>>)
            ELSE deleteRoom(s, roomID, [block |-> FALSE, purge |-> TRUE], fails, n0)

-----------------------------------------------------------------------------
(* Room reconciler *)

errCreateRoom == "cannot create Matrix room"

errGetRoom == "cannot get Matrix room"

errUpdateRoom == "cannot update Matrix room"

errDeleteRoom == "cannot delete Matrix room"

\* The RoomParameters with every optional field unset.
NoRoomParameters ==
    [Name |-> None, Topic |-> None, Alias |-> None, Preset |-> None,
     Visibility |-> None, RoomVersion |-> None, CreationContent |-> None,
     InitialState |-> <<>>, Invite |-> <<>>, PowerLevelOverrides |-> None,
     GuestAccess |-> None, HistoryVisibility |-> None, JoinRules |-> None,
     EncryptionEnabled |-> None, AvatarURL |-> None]

ConvertPowerLevelContent(p) ==
    [Users |-> p.Users, Events |-> p.Events, EventsDefault |-> p.EventsDefault,
     StateDefault |-> p.StateDefault, UsersDefault |-> p.UsersDefault,
     Ban |-> p.Ban, Kick |-> p.Kick, Redact |-> p.Redact, Invite |-> p.Invite]

ConvertStateEvents(events) ==
    [i \in 1..Len(events) |->
        [Type |-> events[i].Type, StateKey |-> events[i].StateKey,
         Content |-> events[i].Content]]

generateRoomSpec(c) ==
    LET p == c.spec
    IN [Name |-> IF IsSet(p.Name) THEN Deref(p.Name) ELSE "",
        Topic |-> IF IsSet(p.Topic) THEN Deref(p.Topic) ELSE "",
        Alias |-> IF IsSet(p.Alias) THEN Deref(p.Alias) ELSE NoText,
        Preset |-> IF IsSet(p.Preset) THEN Deref(p.Preset) ELSE "",
        Visibility |-> IF IsSet(p.Visibility) THEN Deref(p.Visibility) ELSE "",
        RoomVersion |-> IF IsSet(p.RoomVersion) THEN Deref(p.RoomVersion) ELSE "",
        CreationContent |-> p.CreationContent,
        InitialState |-> ConvertStateEvents(p.InitialState),
        Invite |-> p.Invite,
        PowerLevelOverrides |->
            IF IsSet(p.PowerLevelOverrides)
            THEN Some(ConvertPowerLevelContent(Deref(p.PowerLevelOverrides)))
            ELSE None,
        GuestAccess |-> IF IsSet(p.GuestAccess) THEN Deref(p.GuestAccess) ELSE "",
        HistoryVisibility |->
            IF IsSet(p.HistoryVisibility) THEN Deref(p.HistoryVisibility) ELSE "",
        JoinRules |-> IF IsSet(p.JoinRules) THEN Deref(p.JoinRules) ELSE "",
        EncryptionEnabled |->
            IF IsSet(p.EncryptionEnabled) THEN Deref(p.EncryptionEnabled) ELSE FALSE,
        AvatarURL |-> IF IsSet(p.AvatarURL) THEN Deref(p.AvatarURL) ELSE ""]

generateRoomObservation(room) ==
    [RoomID |-> room.RoomID, Name |-> room.Name, Topic |-> room.Topic,
     Alias |-> room.Alias, AvatarURL |-> room.AvatarURL, Creator |-> room.Creator,
     RoomVersion |-> room.RoomVersion, JoinedMembers |-> room.JoinedMembers,
     InvitedMembers |-> room.InvitedMembers, Visibility |-> room.Visibility,
     GuestAccess |-> room.GuestAccess, HistoryVisibility |-> room.HistoryVisibility,
     JoinRules |-> room.JoinRules, EncryptionEnabled |-> room.EncryptionEnabled,
     CreationTime |-> IF IsSet(room.CreationTime) THEN room.CreationTime ELSE None,
     State |-> ConvertStateEvents(room.State),
     PowerLevels |-> IF IsSet(room.PowerLevels)
                     THEN Some(ConvertPowerLevelContent(Deref(room.PowerLevels)))
                     ELSE None]

isRoomUpToDate(c, room) ==
    LET p == c.spec
    IN IF IsSet(p.Name) /\ Deref(p.Name) # room.Name THEN FALSE
       ELSE IF IsSet(p.Topic) /\ Deref(p.Topic) # room.Topic THEN FALSE
       ELSE IF IsSet(p.Alias) /\ Deref(p.Alias) # room.Alias THEN FALSE
       ELSE IF IsSet(p.GuestAccess) /\ Deref(p.GuestAccess) # room.GuestAccess
       THEN FALSE
       ELSE IF IsSet(p.HistoryVisibility)
               /\ Deref(p.HistoryVisibility) # room.HistoryVisibility
       THEN FALSE
       ELSE IF IsSet(p.JoinRules) /\ Deref(p.JoinRules) # room.JoinRules THEN FALSE
       ELSE IF IsSet(p.EncryptionEnabled)
               /\ Deref(p.EncryptionEnabled) # room.EncryptionEnabled
       THEN FALSE
       ELSE IF IsSet(p.AvatarURL) /\ Deref(p.AvatarURL) # room.AvatarURL THEN FALSE
       ELSE TRUE

RoomObserve(c, s, admin, fails) ==
    LET roomID == GetAnnotation(c, AnnotationKeyExternalName)
    IN IF roomID = NoText
       THEN Result(c, s, NilErr, FALSE, FALSE, <<>>, <<>>)
       ELSE
         LET r == GetRoom(s, admin, roomID, fails, 0)
             calls == <<Call("GetRoom", <<roomID>>)>>
         IN IF ~r.err.nil
            THEN IF IsNotFound(r.err)
                 THEN Result(c, r.srv, NilErr, FALSE, FALSE, calls, r.http)
                 ELSE Result(c, r.srv, Wrap(r.err, errGetRoom), FALSE, FALSE,
                             calls, r.http)
            ELSE Result(SetConditions([c EXCEPT !.status.atProvider =
                                            generateRoomObservation(r.val)],
                                      Available),
                        r.srv, NilErr, TRUE, isRoomUpToDate(c, r.val), calls, r.http)

RoomCreate(c, s, admin, fails) ==
    LET roomSpec == generateRoomSpec(c)
        r == CreateRoom(s, admin, roomSpec, fails, 0)
        calls == <<Call("CreateRoom", <<roomSpec>>)>>
    IN IF ~r.err.nil
       THEN Result(c, r.srv, Wrap(r.err, errCreateRoom), FALSE, FALSE, calls, r.http)
       ELSE Result(SetAnnotations(c, (AnnotationKeyExternalName :> r.val.RoomID)),
                   r.srv, NilErr, FALSE, FALSE, calls, r.http)

RoomUpdate(c, s, admin, fails) ==
    LET roomID == GetAnnotation(c, AnnotationKeyExternalName)
        roomSpec == generateRoomSpec(c)
        r == UpdateRoom(s, admin, roomID, roomSpec, fails, 0)
        calls == <<Call("UpdateRoom", <<roomID, roomSpec>>)>>
    IN IF ~r.err.nil
       THEN Result(c, r.srv, Wrap(r.err, errUpdateRoom), FALSE, FALSE, calls, r.http)
       ELSE Result(c, r.srv, NilErr, FALSE, FALSE, calls, r.http)

RoomDelete(c, s, admin, fails) ==
    LET roomID == GetAnnotation(c, AnnotationKeyExternalName)
    IN IF roomID = NoText
       THEN Result(c, s, NilErr, FALSE, FALSE, <<>>, <<>>)
       ELSE LET r == DeleteRoom(s, admin, roomID, fails, 0)
            IN Result(c, r.srv, Wrap(r.err, errDeleteRoom), FALSE, FALSE,
                      <<Call("DeleteRoom", <<roomID>>)>>, r.http)

-----------------------------------------------------------------------------
(* The state machine: one managed object of one kind, the homeserver it is  *)
(* reconciled against, and in last the call the reconciler is serving or   *)
(* the one it served last.                                                 *)

\* Requests of one call that may be made to fail.  CreateRoom sends the
\* most: the create, five state writes, and the admin read and five state
\* reads of GetRoom.
MaxReq == 12

\* How many times other clients of the homeserver change it while one call
\* is between two of its requests.
MaxEnv == 1

Kinds == {"User", "Room", "PowerLevel", "RoomAlias"}

\* A text that is no Matrix identifier of any type.
BadID == <<"b">>

NoUserParameters ==
    [UserID |-> None, Localpart |-> None, Password |-> None, DisplayName |-> None,
     AvatarURL |-> None, Admin |-> None, Deactivated |-> None, UserType |-> None,
     ExternalIDs |-> <<>>, ExpireTime |-> None]

UserSpecs ==
    {[NoUserParameters EXCEPT !.UserID = id, !.DisplayName = d] :
        id \in {None, Some(U1), Some(BadID)}, d \in {None, Some("Al")}}
    \cup {[NoUserParameters EXCEPT !.Localpart = Some("a"), !.DisplayName = Some("Al")]}

\* The room parameters the reconciler is run on while other clients act on
\* the homeserver: the name the room on the server has, and an avatar URL
\* that does not parse.
RoomSpecs ==
    {[NoRoomParameters EXCEPT !.Name = Some("Lobby")],
     [NoRoomParameters EXCEPT !.AvatarURL = Some("bad")]}

\* The room parameters the reconciler is run on with no other client
\* acting: also none at all, a name and a topic the room on the server does
\* not have, and guest access with encryption, which CreateRoom writes
\* after the room is created and UpdateRoom does not write.
RoomAloneSpecs ==
    RoomSpecs
    \cup {NoRoomParameters,
          [NoRoomParameters EXCEPT !.Name = Some("Hall"), !.Topic = Some("News")],
          [NoRoomParameters EXCEPT !.GuestAccess = Some("forbidden"),
                                   !.EncryptionEnabled = Some(TRUE)]}

NoPowerLevelParameters ==
    [RoomID |-> NoText, Users |-> EmptyMap, Events |-> EmptyMap,
     EventsDefault |-> None, StateDefault |-> None, UsersDefault |-> None,
     Ban |-> None, Kick |-> None, Redact |-> None, Invite |-> None]

PowerLevelSpecs ==
    {[NoPowerLevelParameters EXCEPT !.RoomID = R1],
     [NoPowerLevelParameters EXCEPT !.RoomID = R1, !.Users = (U1 :> 50)],
     [NoPowerLevelParameters EXCEPT !.RoomID = R1, !.Users = (UP :> 100)],
     [NoPowerLevelParameters EXCEPT !.RoomID = R1,
                                    !.Users = (U1 :> 50) @@ (UP :> 100),
                                    !.Events = ("m.room.name" :> 50),
                                    !.StateDefault = Some(50)],
     [NoPowerLevelParameters EXCEPT !.RoomID = BadID, !.Users = (U1 :> 50)]}

RoomAliasSpecs ==
    {[Alias |-> a, RoomID |-> r] : a \in {A1, NoText, BadID}, r \in {R1, R2}}
    \cup {[Alias |-> A1, RoomID |-> BadID]}

SpecsOf(kind) ==
    CASE kind = "User" -> UserSpecs
      [] kind = "Room" -> RoomSpecs
      [] kind = "PowerLevel" -> PowerLevelSpecs
      [] kind = "RoomAlias" -> RoomAliasSpecs

\* The identifier an object of the kind is known by once it is created.
GoodID(kind) ==
    CASE kind = "User" -> U1
      [] kind = "Room" -> R1
      [] kind = "PowerLevel" -> R1
      [] kind = "RoomAlias" -> A1

\* Annotations an object may carry before the reconciler first sees it: none,
\* an external name put there by hand, or one unrelated to the provider.
AnnotationsOf(kind) ==
    {EmptyMap, (AnnotationKeyExternalName :> GoodID(kind)),
     (AnnotationKeyExternalName :> BadID), ("team" :> <<"t">>)}

ZeroObservation(kind) ==
    CASE kind = "User" -> generateUserObservation(ZeroUser)
      [] kind = "Room" -> generateRoomObservation(ZeroRoom)
      [] kind = "PowerLevel" ->
            [RoomID |-> NoText, Users |-> EmptyMap, Events |-> EmptyMap,
             LastModified |-> None, EventsDefault |-> 0, StateDefault |-> 0,
             UsersDefault |-> 0, Ban |-> 0, Kick |-> 0, Redact |-> 0, Invite |-> 0]
      [] kind = "RoomAlias" ->
            [Alias |-> NoText, RoomID |-> NoText, IsCanonical |-> FALSE,
             IsPublished |-> FALSE, CreationTime |-> None, Servers |-> <<>>]

\* The account the provider is logged in as, and an ordinary account.
ProviderUser == [AbsentUser EXCEPT !.exists = TRUE, !.displayname = "Pr", !.admin = TRUE]

PresentUser == [AbsentUser EXCEPT !.exists = TRUE, !.displayname = "Al"]

PresentRoom ==
    [exists |-> TRUE, name |-> "Lobby", topic |-> "", canonical_alias |-> NoText,
     avatar |-> "", guest_access |-> "can_join", history_visibility |-> "shared",
     join_rules |-> "invite", encryption |-> "",
     power_levels |-> Some(DefaultPowerLevels)]

\* user_id_key: the server's JSON for an account carries the key user_id.
EmptyServer ==
    [users |-> [u \in ServerUserIDs |-> IF u = UP THEN ProviderUser ELSE AbsentUser],
     rooms |-> [r \in ServerRoomIDs |-> AbsentRoom],
     aliases |-> [a \in ServerAliases |-> NoText],
     user_id_key |-> TRUE]

\* The homeservers an object of the kind may meet: the entity it names is
\* there or is not; for a User, the server's JSON carries user_id or does not.
ServersOf(kind) ==
    CASE kind = "User" ->
            {[EmptyServer EXCEPT !.users[U1] = u, !.user_id_key = k] :
                u \in {AbsentUser, PresentUser}, k \in BOOLEAN}
      [] kind \in {"Room", "PowerLevel"} ->
            {EmptyServer, [EmptyServer EXCEPT !.rooms[R1] = PresentRoom]}
      [] kind = "RoomAlias" ->
            {[EmptyServer EXCEPT !.rooms[R1] = PresentRoom, !.rooms[R2] = PresentRoom,
                                 !.aliases[A1] = b] : b \in {NoText, R1, R2}}

NoCall(c, s) ==
    [op |-> "None", pend |-> "", sched |-> NoFaults, pre |-> c, presrv |-> s,
     faults |-> {}, calls |-> <<>>, http |-> <<>>, err |-> NilErr,
     exists |-> FALSE, upToDate |-> FALSE]

Init ==
    /\ adminMode \in BOOLEAN
    /\ \E kind \in Kinds :
          /\ \E a \in AnnotationsOf(kind), p \in SpecsOf(kind) :
                cr = [kind |-> kind, annotations |-> a, spec |-> p,
                      status |-> [atProvider |-> ZeroObservation(kind),
                                  conditions |-> {}]]
          /\ srv \in ServersOf(kind)
    /\ last = NoCall(cr, srv)

\* A call blocks on each request it sends, and the homeserver serves other
\* clients meanwhile.  A call in progress is held in last: pend names it,
\* http are the requests it has sent, sched the answers they met, and pre
\* and presrv the object and the server it started from.
Pending == last.pend # ""

Sent == IF Pending THEN Len(last.http) ELSE 0

PreSrv == IF Pending THEN last.presrv ELSE srv

Sched == IF Pending THEN last.sched ELSE NoFaults

\* The schedule with the next request of the call sent, failing or not.
NextSched(f) ==
    [down |-> IF f THEN Sched.down \cup {Sent + 1} ELSE Sched.down,
     env |-> Sched.env,
     limit |-> Some(Sent + 1)]

After(sched) == [sched EXCEPT !.limit = Some(Deref(sched.limit) + 1)]

\* Any request of a call may fail, whatever became of the ones before it:
\* the reads of GetRoom go on after a failure, every other call ends at its
\* first failing request.
MayFail(f) == f => Sent + 1 <= MaxReq

\* The managed reconciler reconciles one object serially: no method starts
\* while another is in progress.
CanRun(kind, op) == cr.kind = kind /\ last.pend \in {"", op}

\* The call has returned once it sends nothing past the request just sent.
Returns(r2) == Len(r2.http) <= Sent + 1

InProgress(op, r, sched) ==
    [op |-> "Pending", pend |-> op, sched |-> sched, pre |-> cr, presrv |-> PreSrv,
     faults |-> sched.down, calls |-> <<>>, http |-> r.http, err |-> NilErr,
     exists |-> FALSE, upToDate |-> FALSE]

Returned(op, r2, sched) ==
    [op |-> op, pend |-> "", sched |-> [sched EXCEPT !.limit = None], pre |-> cr,
     presrv |-> PreSrv, faults |-> sched.down, calls |-> r2.calls,
     http |-> r2.http, err |-> r2.err, exists |-> r2.exists,
     upToDate |-> r2.upToDate]

\* The reconciler goes one request further in a call: r is the call up to
\* and with its next request, r2 the call one request past that.  When the
\* call returns, the object and the server are as it left them and last
\* holds what it did and returned; faults are the requests that failed.
Served(op, r, r2, sched) ==
    \E a \in {r}, b \in {r2} :
        /\ Failing(sched, Sent + 1) => Len(a.http) = Sent + 1
        /\ cr' = IF Returns(b) THEN b.cr ELSE cr
        /\ srv' = IF Returns(b) THEN b.srv ELSE a.srv
        /\ last' = IF Returns(b) THEN Returned(op, b, sched)
                    ELSE InProgress(op, a, sched)
        /\ UNCHANGED adminMode

-----------------------------------------------------------------------------
(* One action per reconciler method of each kind.  The managed reconciler   *)
(* may call any of them on the object as it stands; each firing takes the  *)
(* call to its next request or to its return, and the request may fail.    *)

UserObserveCall ==
    /\ CanRun("User", "Observe")
    /\ \E f \in BOOLEAN :
          /\ MayFail(f)
          /\ Served("Observe", UserObserve(cr, PreSrv, adminMode, NextSched(f)),
                    UserObserve(cr, PreSrv, adminMode, After(NextSched(f))),
                    NextSched(f))

UserCreateCall ==
    /\ CanRun("User", "Create")
    /\ \E f \in BOOLEAN :
          /\ MayFail(f)
          /\ Served("Create", UserCreate(cr, PreSrv, adminMode, NextSched(f)),
                    UserCreate(cr, PreSrv, adminMode, After(NextSched(f))),
                    NextSched(f))

UserUpdateCall ==
    /\ CanRun("User", "Update")
    /\ \E f \in BOOLEAN :
          /\ MayFail(f)
          /\ Served("Update", UserUpdate(cr, PreSrv, adminMode, NextSched(f)),
                    UserUpdate(cr, PreSrv, adminMode, After(NextSched(f))),
                    NextSched(f))

UserDeleteCall ==
    /\ CanRun("User", "Delete")
    /\ \E f \in BOOLEAN :
          /\ MayFail(f)
          /\ Served("Delete", UserDelete(cr, PreSrv, adminMode, NextSched(f)),
                    UserDelete(cr, PreSrv, adminMode, After(NextSched(f))),
                    NextSched(f))

RoomObserveCall ==
    /\ CanRun("Room", "Observe")
    /\ \E f \in BOOLEAN :
          /\ MayFail(f)
          /\ Served("Observe", RoomObserve(cr, PreSrv, adminMode, NextSched(f)),
                    RoomObserve(cr, PreSrv, adminMode, After(NextSched(f))),
                    NextSched(f))

RoomCreateCall ==
    /\ CanRun("Room", "Create")
    /\ \E f \in BOOLEAN :
          /\ MayFail(f)
          /\ Served("Create", RoomCreate(cr, PreSrv, adminMode, NextSched(f)),
                    RoomCreate(cr, PreSrv, adminMode, After(NextSched(f))),
                    NextSched(f))

RoomUpdateCall ==
    /\ CanRun("Room", "Update")
    /\ \E f \in BOOLEAN :
          /\ MayFail(f)
          /\ Served("Update", RoomUpdate(cr, PreSrv, adminMode, NextSched(f)),
                    RoomUpdate(cr, PreSrv, adminMode, After(NextSched(f))),
                    NextSched(f))

RoomDeleteCall ==
    /\ CanRun("Room", "Delete")
    /\ \E f \in BOOLEAN :
          /\ MayFail(f)
          /\ Served("Delete", RoomDelete(cr, PreSrv, adminMode, NextSched(f)),
                    RoomDelete(cr, PreSrv, adminMode, After(NextSched(f))),
                    NextSched(f))

PowerLevelObserveCall ==
    /\ CanRun("PowerLevel", "Observe")
    /\ \E f \in BOOLEAN :
          /\ MayFail(f)
          /\ Served("Observe", PowerLevelObserve(cr, PreSrv, adminMode, NextSched(f)),
                    PowerLevelObserve(cr, PreSrv, adminMode, After(NextSched(f))),
                    NextSched(f))

PowerLevelCreateCall ==
    /\ CanRun("PowerLevel", "Create")
    /\ \E f \in BOOLEAN :
          /\ MayFail(f)
          /\ Served("Create", PowerLevelCreate(cr, PreSrv, adminMode, NextSched(f)),
                    PowerLevelCreate(cr, PreSrv, adminMode, After(NextSched(f))),
                    NextSched(f))

PowerLevelUpdateCall ==
    /\ CanRun("PowerLevel", "Update")
    /\ \E f \in BOOLEAN :
          /\ MayFail(f)
          /\ Served("Update", PowerLevelUpdate(cr, PreSrv, adminMode, NextSched(f)),
                    PowerLevelUpdate(cr, PreSrv, adminMode, After(NextSched(f))),
                    NextSched(f))

PowerLevelDeleteCall ==
    /\ CanRun("PowerLevel", "Delete")
    /\ \E f \in BOOLEAN :
          /\ MayFail(f)
          /\ Served("Delete", PowerLevelDelete(cr, PreSrv, adminMode, NextSched(f)),
                    PowerLevelDelete(cr, PreSrv, adminMode, After(NextSched(f))),
                    NextSched(f))

RoomAliasObserveCall ==
    /\ CanRun("RoomAlias", "Observe")
    /\ \E f \in BOOLEAN :
          /\ MayFail(f)
          /\ Served("Observe", RoomAliasObserve(cr, PreSrv, adminMode, NextSched(f)),
                    RoomAliasObserve(cr, PreSrv, adminMode, After(NextSched(f))),
                    NextSched(f))

RoomAliasCreateCall ==
    /\ CanRun("RoomAlias", "Create")
    /\ \E f \in BOOLEAN :
          /\ MayFail(f)
          /\ Served("Create", RoomAliasCreate(cr, PreSrv, adminMode, NextSched(f)),
                    RoomAliasCreate(cr, PreSrv, adminMode, After(NextSched(f))),
                    NextSched(f))

RoomAliasUpdateCall ==
    /\ CanRun("RoomAlias", "Update")
    /\ \E f \in BOOLEAN :
          /\ MayFail(f)
          /\ Served("Update", RoomAliasUpdate(cr, PreSrv, adminMode, NextSched(f)),
                    RoomAliasUpdate(cr, PreSrv, adminMode, After(NextSched(f))),
                    NextSched(f))

RoomAliasDeleteCall ==
    /\ CanRun("RoomAlias", "Delete")
    /\ \E f \in BOOLEAN :
          /\ MayFail(f)
          /\ Served("Delete", RoomAliasDelete(cr, PreSrv, adminMode, NextSched(f)),
                    RoomAliasDelete(cr, PreSrv, adminMode, After(NextSched(f))),
                    NextSched(f))

\* Another client left the server as s.  A call in progress meets s at its
\* next request.
OutOfBand(s) ==
    /\ srv' = s
    /\ IF Pending
       THEN /\ Cardinality(last.sched.env) < MaxEnv
            /\ last' = [last EXCEPT !.sched.env =
                            {e \in @ : e.at # Sent + 1}
                            \cup {[at |-> Sent + 1, srv |-> s]}]
       ELSE last' = [last EXCEPT !.op = "None", !.sched = NoFaults, !.pre = cr,
                                 !.presrv = s,
                                 !.faults = {}, !.calls = <<>>, !.http = <<>>,
                                 !.err = NilErr, !.exists = FALSE,
                                 !.upToDate = FALSE]
    /\ UNCHANGED <<adminMode, cr>>

\* Out of band: a room is removed from the server, with its aliases.
ServerRoomRemoved ==
    \E r \in ServerRoomIDs :
        /\ RoomExists(srv, r)
        /\ OutOfBand(ServerDeleteRoom(srv, r))

\* Out of band: an alias is removed from the directory.
ServerAliasRemoved ==
    \E a \in ServerAliases :
        /\ AliasBound(srv, a)
        /\ OutOfBand([srv EXCEPT !.aliases[a] = NoText])

\* Out of band: while a call on an alias is in progress, another client
\* binds a free alias to a room.
ServerAliasBound ==
    \E a \in ServerAliases, r \in ServerRoomIDs :
        /\ cr.kind \in {"RoomAlias", "Wire"}
        /\ Pending
        /\ ~AliasBound(srv, a)
        /\ RoomExists(srv, r)
        /\ OutOfBand([srv EXCEPT !.aliases[a] = r])

\* Out of band: while a call on a user is in progress, the display name of
\* an account other than the provider's is set from another session.
ServerUserRenamed ==
    \E u \in ServerUserIDs \ {UP} :
        /\ cr.kind \in {"User", "Wire"}
        /\ Pending
        /\ srv.users[u].exists
        /\ srv.users[u].displayname # "Zed"
        /\ OutOfBand([srv EXCEPT !.users[u].displayname = "Zed"])

\* Out of band: a room moderator rewrites the users of the power levels of
\* the room a PowerLevel object names.
ServerPowerLevelsChanged ==
    /\ cr.kind = "PowerLevel"
    /\ \E r \in {cr.spec.RoomID},
          u \in {EmptyMap, (U1 :> 50), (U1 :> 50) @@ (UP :> 100)} :
          /\ RoomExists(srv, r)
          /\ IsSet(srv.rooms[r].power_levels)
          /\ Deref(srv.rooms[r].power_levels).Users # u
          /\ OutOfBand([srv EXCEPT !.rooms[r].power_levels =
                           Some([Deref(srv.rooms[r].power_levels) EXCEPT !.Users = u])])

Next ==
    \/ UserObserveCall \/ UserCreateCall \/ UserUpdateCall \/ UserDeleteCall
    \/ RoomObserveCall \/ RoomCreateCall \/ RoomUpdateCall \/ RoomDeleteCall
    \/ PowerLevelObserveCall \/ PowerLevelCreateCall
    \/ PowerLevelUpdateCall \/ PowerLevelDeleteCall
    \/ RoomAliasObserveCall \/ RoomAliasCreateCall
    \/ RoomAliasUpdateCall \/ RoomAliasDeleteCall
    \/ ServerRoomRemoved \/ ServerAliasRemoved \/ ServerAliasBound
    \/ ServerUserRenamed \/ ServerPowerLevelsChanged

Spec == Init /\ [][Next]_vars

\* One Room object reconciled with no other client acting on the
\* homeserver, on each of RoomAloneSpecs; any of its requests may fail.
InitRoom ==
    /\ adminMode \in BOOLEAN
    /\ \E a \in AnnotationsOf("Room"), p \in RoomAloneSpecs :
          cr = [kind |-> "Room", annotations |-> a, spec |-> p,
                status |-> [atProvider |-> ZeroObservation("Room"),
                            conditions |-> {}]]
    /\ srv \in ServersOf("Room")
    /\ last = NoCall(cr, srv)

NextRoom == RoomObserveCall \/ RoomCreateCall \/ RoomUpdateCall \/ RoomDeleteCall

SpecRoom == InitRoom /\ [][NextRoom]_vars

-----------------------------------------------------------------------------
(* Properties of the reconcilers.  Each is stated about the last call       *)
(* that returned: the object and the server before it (last.pre,           *)
(* last.presrv), what it returned and sent, and the object and the server  *)
(* after it.  While a call is in progress last.op is "Pending".            *)

CallNames(calls) == [i \in 1..Len(calls) |-> calls[i].name]

\* No other client changed the server between two requests of the last call.
Undisturbed == last.sched.env = {}

\* The server as other clients had left it when the last call sent its n-th
\* request; for a call that writes nothing, the server that answered it.
ServerAt(n) ==
    IF \E e \in last.sched.env : e.at <= n
    THEN (CHOOSE e \in last.sched.env :
             e.at <= n /\ \A d \in last.sched.env : d.at <= n => d.at <= e.at).srv
    ELSE last.presrv

WellFormed(id, idType) == validateMatrixID(id, idType).nil

\* The identifier the kind's Observe fetches by: the external name for User
\* and Room, the identifier in the spec for PowerLevel and RoomAlias.
ObserveKey(c) ==
    CASE c.kind \in {"User", "Room"} -> GetExternalName(c)
      [] c.kind = "PowerLevel" -> c.spec.RoomID
      [] c.kind = "RoomAlias" -> c.spec.Alias

\* The wire-client method the kind's Observe fetches with.
FetchName(kind) ==
    CASE kind = "User" -> "GetUser"
      [] kind = "Room" -> "GetRoom"
      [] kind = "PowerLevel" -> "GetPowerLevels"
      [] kind = "RoomAlias" -> "GetRoomAlias"

\* The error of that fetch, made on server s with its requests answered as
\* fails has them.
FetchErr(c, s, admin, fails) ==
    CASE c.kind = "User" -> GetUser(s, admin, ObserveKey(c), fails, 0).err
      [] c.kind = "Room" -> GetRoom(s, admin, ObserveKey(c), fails, 0).err
      [] c.kind = "PowerLevel" -> GetPowerLevels(s, ObserveKey(c), fails, 0).err
      [] c.kind = "RoomAlias" -> GetRoomAlias(s, ObserveKey(c), fails, 0).err

errGetOf(kind) ==
    CASE kind = "User" -> errGetUser
      [] kind = "Room" -> errGetRoom
      [] kind = "PowerLevel" -> errGetPowerLevels
      [] kind = "RoomAlias" -> errGetRoomAlias

\* The entity an object names is not on server s.
RemoteAbsent(c, s) ==
    CASE c.kind = "User" ->
            ~(ObserveKey(c) \in ServerUserIDs /\ s.users[ObserveKey(c)].exists)
      [] c.kind = "Room" -> ~RoomExists(s, ObserveKey(c))
      [] c.kind = "PowerLevel" -> ~RoomExists(s, ObserveKey(c))
      [] c.kind = "RoomAlias" -> ~AliasBound(s, ObserveKey(c))

IDTypeOf(kind) ==
    CASE kind = "User" -> "user"
      [] kind \in {"Room", "PowerLevel"} -> "room"
      [] kind = "RoomAlias" -> "alias"

ObservedWithoutName ==
    last.op = "Observe" /\ GetExternalName(last.pre) = NoText

\* C1 (as the spec states it): for every kind, Observe on an object with no
\* external identifier recorded returns exists=false and calls no
\* wire-client method.
C1_ObserveWithoutNameIsSilent ==
    ObservedWithoutName => (~last.exists /\ Len(last.calls) = 0)

\* C1, what the code does: Observe on a User or Room with no external
\* identifier recorded returns exists=false with no error, calls no
\* wire-client method and sends no request; Observe on a PowerLevel or
\* RoomAlias, with or without an external identifier recorded, makes exactly
\* one fetch, keyed by the room ID or alias of the spec, and reports
\* exists=true with no error when that fetch succeeds.
C1_ObserveWithoutName ==
    /\ (ObservedWithoutName /\ last.pre.kind \in {"User", "Room"}) =>
          /\ ~last.exists
          /\ last.err.nil
          /\ Len(last.calls) = 0
          /\ Len(last.http) = 0
          /\ cr = last.pre
    /\ (last.op = "Observe" /\ last.pre.kind \in {"PowerLevel", "RoomAlias"}) =>
          /\ CallNames(last.calls) = <<FetchName(last.pre.kind)>>
          /\ last.calls[1].args = <<ObserveKey(last.pre)>>
          /\ FetchErr(last.pre, last.presrv, adminMode, last.sched).nil =>
                (last.exists /\ last.err.nil)

\* A Room with no external identifier recorded, its room on the server:
\* nothing is fetched.
C1_WitnessSilent ==
    /\ ObservedWithoutName
    /\ last.pre.kind = "Room"
    /\ RoomExists(last.presrv, R1)
    /\ ~last.exists
    /\ Len(last.http) = 0

\* A PowerLevel with no external identifier recorded: GetPowerLevels is
\* called with the room ID of the spec, one request is sent, and the object
\* is observed as existing.
C1_WitnessFetched ==
    /\ ObservedWithoutName
    /\ last.pre.kind = "PowerLevel"
    /\ last.calls = <<Call("GetPowerLevels", <<R1>>)>>
    /\ Len(last.http) = 1
    /\ last.exists
    /\ last.err.nil

\* C2: for every kind, in admin and in non-admin mode, Observe on an object
\* with a recorded, well-formed external identifier whose remote entity is
\* not on the server, all requests being answered, returns exists=false with
\* no error.
C2_AbsentRemoteObservedAsMissing ==
    (/\ last.op = "Observe"
     /\ GetExternalName(last.pre) # NoText
     /\ GetExternalName(last.pre) = ObserveKey(last.pre)
     /\ WellFormed(ObserveKey(last.pre), IDTypeOf(last.pre.kind))
     /\ RemoteAbsent(last.pre, last.presrv)
     /\ last.faults = {})
    => (~last.exists /\ last.err.nil)

\* The same for the kinds other than Room.
C2_AbsentRemoteOtherKinds ==
    last.pre.kind # "Room" => C2_AbsentRemoteObservedAsMissing

\* A Room whose remote room is gone is observed as existing.
C2_WitnessRoomGone ==
    /\ last.op = "Observe"
    /\ last.pre.kind = "Room"
    /\ GetExternalName(last.pre) = R1
    /\ ~RoomExists(last.presrv, R1)
    /\ last.faults = {}
    /\ last.exists
    /\ last.err.nil

\* C3: for every kind, when the fetch of Observe fails with an error that
\* IsNotFound does not classify as not-found, Observe returns that error
\* wrapped with the kind's get-error text, does not report exists=false, and
\* leaves the object, its status observation and conditions included, as it
\* was.
C3_FetchErrorPropagates ==
    (/\ last.op = "Observe"
     /\ Len(last.calls) = 1
     /\ ~FetchErr(last.pre, last.presrv, adminMode, last.sched).nil
     /\ ~IsNotFound(FetchErr(last.pre, last.presrv, adminMode, last.sched)))
    => /\ last.err = Wrap(FetchErr(last.pre, last.presrv, adminMode, last.sched),
                          errGetOf(last.pre.kind))
       /\ ~last.err.nil
       /\ ~last.exists
       /\ cr.status = last.pre.status
       /\ cr = last.pre

C3_Witness ==
    /\ last.op = "Observe"
    /\ last.pre.kind = "User"
    /\ last.faults = {1}
    /\ ~last.err.nil
    /\ last.pre.status.conditions # {}

\* The reads of GetRoom that fail are no fetch error.  Standard API, the
\* room is on the server under the declared name: the reads of the name and
\* of the power levels were answered with 500, and the Room is observed as
\* existing, with no name and no power levels, and as not up to date.
C3_WitnessRoomReadsLost ==
    /\ last.op = "Observe"
    /\ last.pre.kind = "Room"
    /\ ~adminMode
    /\ GetExternalName(last.pre) = R1
    /\ last.pre.spec.Name = Some("Lobby")
    /\ last.presrv.rooms[R1].exists
    /\ last.presrv.rooms[R1].name = "Lobby"
    /\ Undisturbed
    /\ last.faults = {1, 5}
    /\ last.err.nil
    /\ last.exists
    /\ ~last.upToDate
    /\ cr.status.atProvider.Name = ""
    /\ cr.status.atProvider.Topic = ""
    /\ ~IsSet(cr.status.atProvider.PowerLevels)

\* Admin mode: the admin read and the read of the name that follows it were
\* answered with 500.
C3_WitnessAdminAndNameLost ==
    /\ last.op = "Observe"
    /\ last.pre.kind = "Room"
    /\ adminMode
    /\ GetExternalName(last.pre) = R1
    /\ last.pre.spec.Name = Some("Lobby")
    /\ last.presrv.rooms[R1].exists
    /\ last.presrv.rooms[R1].name = "Lobby"
    /\ Undisturbed
    /\ last.faults = {1, 2}
    /\ Len(last.http) = 6
    /\ last.err.nil
    /\ last.exists
    /\ ~last.upToDate
    /\ cr.status.atProvider.Name = ""
    /\ IsSet(cr.status.atProvider.PowerLevels)

\* Every request of an Observe failed, and another client removed the room
\* between two of them.
C3_WitnessAllReadsLost ==
    /\ last.op = "Observe"
    /\ last.pre.kind = "Room"
    /\ adminMode
    /\ last.faults = 1..6
    /\ ~Undisturbed
    /\ last.err.nil
    /\ last.exists


AliasUpdated == last.op = "Update" /\ last.pre.kind = "RoomAlias"

\* The outcome of the delete that RoomAlias Update begins with.
UpdateDelete ==
    DeleteRoomAlias(last.presrv, last.pre.spec.Alias, last.sched, 0)

\* C4: RoomAlias Update calls DeleteRoomAlias(alias) first; when the delete
\* succeeds or reports not-found it then calls CreateRoomAlias(alias, desired
\* room); when the delete fails with any other error it calls nothing more
\* and returns that error; no create request is sent before a delete
\* request.
C4_DeleteThenCreate ==
    AliasUpdated =>
        /\ Len(last.calls) >= 1
        /\ last.calls[1] = Call("DeleteRoomAlias", <<last.pre.spec.Alias>>)
        /\ (UpdateDelete.err.nil \/ IsNotFound(UpdateDelete.err)) =>
              /\ Len(last.calls) = 2
              /\ last.calls[2] = Call("CreateRoomAlias",
                                      <<last.pre.spec.Alias, last.pre.spec.RoomID>>)
        /\ (~UpdateDelete.err.nil /\ ~IsNotFound(UpdateDelete.err)) =>
              /\ Len(last.calls) = 1
              /\ last.err = Wrap(UpdateDelete.err, errDeleteRoomAlias)
              /\ \A i \in 1..Len(last.http) : last.http[i].method # "PUT"
        /\ \A i, j \in 1..Len(last.http) :
              (last.http[i].method = "PUT" /\ last.http[j].method = "DELETE") => j < i

\* The delete reported not-found and the create bound the alias.
C4_Witness ==
    /\ AliasUpdated
    /\ ~UpdateDelete.err.nil
    /\ IsNotFound(UpdateDelete.err)
    /\ Len(last.http) = 2
    /\ last.err.nil
    /\ srv.aliases[A1] = last.pre.spec.RoomID

\* Another client bound the alias between the delete and the create of the
\* Update: the create was refused with 409.
C4_WitnessCreateRefused ==
    /\ AliasUpdated
    /\ UpdateDelete.err.nil
    /\ last.faults = {}
    /\ \E e \in last.sched.env : e.at = 2 /\ AliasBound(e.srv, last.pre.spec.Alias)
    /\ Len(last.calls) = 2
    /\ Len(last.http) = 2
    /\ ~last.err.nil

\* The delete of the last RoomAlias Update succeeded and its create failed.
DeletedNotCreated == AliasUpdated /\ UpdateDelete.err.nil /\ ~last.err.nil

\* The server as another client left it between the delete and the create
\* of the last Update, if one acted then.
BetweenDeleteAndCreate == {e \in last.sched.env : e.at = 2}

\* C5 (as the spec states it): when the delete of RoomAlias Update succeeds
\* and its create then fails, Update returns an error, the alias is bound to
\* no room on the server, and nothing is called or sent after the failed
\* create.
C5_UpdateLeavesAliasUnbound ==
    DeletedNotCreated =>
        /\ ~AliasBound(srv, last.pre.spec.Alias)
        /\ CallNames(last.calls) = <<"DeleteRoomAlias", "CreateRoomAlias">>
        /\ Len(last.http) <= 2

\* C5: when the delete of RoomAlias Update succeeds and its create then
\* fails, Update returns an error and has called and sent nothing after the
\* failed create; the alias, which was bound before, is bound to no room
\* unless another client bound it between the delete and the create, and
\* then it is bound as that client left it.
C5_UpdateNotAtomic ==
    DeletedNotCreated =>
        /\ AliasBound(last.presrv, last.pre.spec.Alias)
        /\ CallNames(last.calls) = <<"DeleteRoomAlias", "CreateRoomAlias">>
        /\ Len(last.http) <= 2
        /\ last.http[1].method = "DELETE"
        /\ Len(last.http) = 2 => last.http[2].method = "PUT"
        /\ BetweenDeleteAndCreate = {} => ~AliasBound(srv, last.pre.spec.Alias)
        /\ \A e \in BetweenDeleteAndCreate :
              srv.aliases[last.pre.spec.Alias] = e.srv.aliases[last.pre.spec.Alias]

\* The alias was bound to R1, the desired room is R2, the create failed: the
\* alias is bound to no room.
C5_Witness ==
    /\ DeletedNotCreated
    /\ last.presrv.aliases[A1] = R1
    /\ last.pre.spec.RoomID = R2
    /\ Len(last.http) = 2
    /\ srv.aliases[A1] = NoText

\* Another client bound the alias to the old room between the delete and the
\* create: the create failed and the alias is bound.
C5_WitnessBoundMeanwhile ==
    /\ DeletedNotCreated
    /\ last.presrv.aliases[A1] = R1
    /\ last.pre.spec.RoomID = R2
    /\ last.faults = {}
    /\ srv.aliases[A1] = R1

\* The desired room ID is malformed: the create fails before its request.
C5_WitnessCreateInvalid ==
    /\ DeletedNotCreated
    /\ Len(last.http) = 1
    /\ srv.aliases[A1] = NoText

UserDeleted ==
    /\ last.op = "Delete"
    /\ last.pre.kind = "User"
    /\ GetExternalName(last.pre) # NoText

\* C6: Delete on a User with a recorded external identifier calls
\* DeactivateUser exactly once; every request it sends is the deactivation
\* of that user with erase=false, and there is at most one; after a
\* successful Delete one such request was sent and GetUser returns the user
\* with Deactivated=true.
C6_DeleteDeactivates ==
    UserDeleted =>
        /\ last.calls = <<Call("DeactivateUser", <<GetExternalName(last.pre)>>)>>
        /\ Len(last.http) <= 1
        /\ \A i \in 1..Len(last.http) :
              last.http[i] = Req("admin", "POST", "/_synapse/admin/v1/deactivate/",
                                 GetExternalName(last.pre), [erase |-> FALSE])
        /\ last.err.nil =>
              /\ Len(last.http) = 1
              /\ GetUser(srv, adminMode, GetExternalName(last.pre), NoFaults, 0).err.nil
              /\ GetUser(srv, adminMode, GetExternalName(last.pre), NoFaults, 0).val.Deactivated
              /\ GetUser(srv, adminMode, GetExternalName(last.pre), NoFaults, 0).val.UserID
                    = (IF srv.user_id_key THEN GetExternalName(last.pre) ELSE NoText)
              /\ srv.users[U1].displayname = last.presrv.users[U1].displayname

C6_Witness ==
    /\ UserDeleted
    /\ last.err.nil
    /\ ~last.presrv.users[U1].deactivated
    /\ srv.users[U1].exists
    /\ srv.users[U1].deactivated

DeletedWithoutName ==
    last.op = "Delete" /\ GetExternalName(last.pre) = NoText

Silent == last.err.nil /\ Len(last.calls) = 0 /\ Len(last.http) = 0

\* C7 (as the spec states it): for every kind, Delete on an object with no
\* external identifier recorded returns success and calls no wire-client
\* method; PowerLevel Delete does so in every state.
C7_DeleteWithoutNameIsSilent ==
    /\ DeletedWithoutName => Silent
    /\ (last.op = "Delete" /\ last.pre.kind = "PowerLevel") => Silent

\* C7: Delete on a User or Room with no external identifier recorded returns
\* success, calls no wire-client method and leaves the server as it was;
\* PowerLevel Delete does so in every state; Delete on a RoomAlias with no
\* external identifier recorded does so only when the alias of the spec is
\* empty too, and otherwise calls DeleteRoomAlias once with the alias of the
\* spec and returns its result.
C7_DeleteWithoutName ==
    /\ (DeletedWithoutName /\ last.pre.kind \in {"User", "Room"}) =>
          (Silent /\ srv = last.presrv /\ cr = last.pre)
    /\ (last.op = "Delete" /\ last.pre.kind = "PowerLevel") =>
          (Silent /\ srv = last.presrv /\ cr = last.pre)
    /\ (DeletedWithoutName /\ last.pre.kind = "RoomAlias") =>
          IF last.pre.spec.Alias = NoText
          THEN Silent /\ srv = last.presrv
          ELSE /\ last.calls = <<Call("DeleteRoomAlias", <<last.pre.spec.Alias>>)>>
               /\ last.err = Wrap(DeleteRoomAlias(last.presrv, last.pre.spec.Alias,
                                                  last.sched, 0).err,
                                  errDeleteRoomAlias)

\* A RoomAlias with no external identifier recorded is deleted on the server.
C7_Witness ==
    /\ DeletedWithoutName
    /\ last.pre.kind = "RoomAlias"
    /\ AliasBound(last.presrv, A1)
    /\ ~AliasBound(srv, A1)
    /\ last.err.nil

\* The external name of the object names the entity that the Create that
\* was served made: the account of the user ID of the spec; the room that
\* the server made and gave an ID no room had; the power levels of the room
\* of the spec; the alias of the spec, bound to the room of the spec.
NamesCreated ==
    CASE cr.kind = "User" ->
            /\ GetExternalName(cr) = generateUserSpec(last.pre).UserID
            /\ GetExternalName(cr) \in ServerUserIDs
            /\ srv.users[GetExternalName(cr)].exists
      [] cr.kind = "Room" ->
            /\ GetExternalName(cr) = FreshRoomID(last.presrv)
            /\ ~RoomExists(last.presrv, GetExternalName(cr))
            /\ Undisturbed => RoomExists(srv, GetExternalName(cr))
      [] cr.kind = "PowerLevel" ->
            /\ GetExternalName(cr) = last.pre.spec.RoomID
            /\ RoomExists(srv, GetExternalName(cr))
            /\ srv.rooms[GetExternalName(cr)].power_levels =
                  Some(PowerLevelsEventContent(
                          generatePowerLevelSpec(last.pre).PowerLevels))
      [] cr.kind = "RoomAlias" ->
            /\ GetExternalName(cr) = last.pre.spec.Alias
            /\ AliasBound(srv, GetExternalName(cr))
            /\ srv.aliases[GetExternalName(cr)] = last.pre.spec.RoomID

\* C8 (as the spec states it): for every kind, after a successful Create the
\* object carries a non-empty external identifier that names the entity the
\* call created (Room: the ID the server assigned; User: the user ID;
\* PowerLevel: the room ID; RoomAlias: the alias); after a failed Create the
\* object, its external identifier included, is as it was.
C8_CreateRecordsName ==
    last.op = "Create" =>
        IF last.err.nil
        THEN GetExternalName(cr) # NoText /\ NamesCreated
        ELSE /\ GetExternalName(cr) = GetExternalName(last.pre)
             /\ cr.annotations = last.pre.annotations

\* A User is created on a server whose reply does not carry user_id: Create
\* succeeds, the account is on the server, and the external identifier
\* recorded is empty.
C8_WitnessEmptyName ==
    /\ last.op = "Create"
    /\ last.pre.kind = "User"
    /\ last.err.nil
    /\ generateUserSpec(last.pre).UserID = U1
    /\ ~last.presrv.users[U1].exists
    /\ srv.users[U1].exists
    /\ GetExternalName(cr) = NoText

\* C8, what the code does: the statement holds for Room, PowerLevel and
\* RoomAlias, and for a failed Create of every kind; a successful Create of
\* a User records what the server's reply holds under user_id, which is the
\* user ID on a server that sends it and empty on one that does not.
C8_RecordsReportedName ==
    last.op = "Create" =>
        IF ~last.err.nil
        THEN /\ GetExternalName(cr) = GetExternalName(last.pre)
             /\ cr.annotations = last.pre.annotations
        ELSE IF cr.kind = "User" /\ ~srv.user_id_key
        THEN /\ GetExternalName(cr) = NoText
             /\ srv.users[generateUserSpec(last.pre).UserID].exists
        ELSE GetExternalName(cr) # NoText /\ NamesCreated

\* A Room is created next to the room R1: the server assigns R2.
C8_WitnessRoom ==
    /\ last.op = "Create"
    /\ last.pre.kind = "Room"
    /\ last.err.nil
    /\ RoomExists(last.presrv, R1)
    /\ GetExternalName(last.pre) = NoText
    /\ GetExternalName(cr) = R2

\* Another client removed the room while CreateRoom was reading it back: the
\* Create succeeds and records the ID of the room it made.
C8_WitnessRoomRemovedMeanwhile ==
    /\ last.op = "Create"
    /\ last.pre.kind = "Room"
    /\ last.err.nil
    /\ GetExternalName(cr) = FreshRoomID(last.presrv)
    /\ ~RoomExists(srv, GetExternalName(cr))

\* A Create failed after the server had made the room.
C8_WitnessFailed ==
    /\ last.op = "Create"
    /\ last.pre.kind = "Room"
    /\ ~last.err.nil
    /\ srv # last.presrv

-----------------------------------------------------------------------------
(* The equality checks on their own: an object with declared parameters, an *)
(* observed remote state, and the check applied to the two.               *)

UserEqSpecs ==
    {[NoUserParameters EXCEPT !.DisplayName = d, !.AvatarURL = v, !.Admin = a,
                              !.Deactivated = x, !.UserType = t] :
        d \in {None, Some(""), Some("Al")}, v \in {None, Some("mxc://x/a")},
        a \in {None, Some(FALSE), Some(TRUE)}, x \in {None, Some(FALSE)},
        t \in {None, Some("bot")}}

ObservedUsers ==
    {[ZeroUser EXCEPT !.UserID = U1, !.DisplayName = d, !.AvatarURL = v, !.Admin = a,
                      !.Deactivated = x, !.UserType = t] :
        d \in {"", "Al", "Bo"}, v \in {"", "mxc://x/a"}, a \in BOOLEAN,
        x \in BOOLEAN, t \in {"", "bot"}}

\* No field declared, one field declared, or all of them.
RoomEqSpecs ==
    {NoRoomParameters,
     [NoRoomParameters EXCEPT !.Name = Some("Hall"), !.Topic = Some("News"),
                              !.Alias = Some(A1), !.GuestAccess = Some("forbidden"),
                              !.HistoryVisibility = Some("shared"),
                              !.JoinRules = Some("invite"),
                              !.EncryptionEnabled = Some(TRUE),
                              !.AvatarURL = Some("mxc://x/a")]}
    \cup {[NoRoomParameters EXCEPT !.Name = Some(n)] : n \in {"", "Hall"}}
    \cup {[NoRoomParameters EXCEPT !.Topic = Some(n)] : n \in {"", "News"}}
    \cup {[NoRoomParameters EXCEPT !.Alias = Some(n)] : n \in {NoText, A1}}
    \cup {[NoRoomParameters EXCEPT !.GuestAccess = Some(n)] : n \in {"", "forbidden"}}
    \cup {[NoRoomParameters EXCEPT !.HistoryVisibility = Some(n)] : n \in {"", "shared"}}
    \cup {[NoRoomParameters EXCEPT !.JoinRules = Some(n)] : n \in {"", "invite"}}
    \cup {[NoRoomParameters EXCEPT !.EncryptionEnabled = Some(n)] : n \in BOOLEAN}
    \cup {[NoRoomParameters EXCEPT !.AvatarURL = Some(n)] : n \in {"", "mxc://x/a"}}
    \cup {[NoRoomParameters EXCEPT !.Visibility = Some("private")]}

ObservedRooms ==
    {[ZeroRoom EXCEPT !.RoomID = R1, !.Name = n, !.Topic = t, !.Alias = a,
                      !.GuestAccess = g, !.HistoryVisibility = h, !.JoinRules = j,
                      !.EncryptionEnabled = e, !.AvatarURL = v, !.Visibility = w] :
        n \in {"", "Hall"}, t \in {"", "News"}, a \in {NoText, A1},
        g \in {"", "forbidden"}, h \in {"", "shared"}, j \in {"", "invite"},
        e \in BOOLEAN, v \in {"", "mxc://x/a"}, w \in {"private", "public"}}

PowerLevelEqSpecs ==
    {[NoPowerLevelParameters EXCEPT !.RoomID = R1, !.Users = u, !.Events = e,
                                    !.EventsDefault = d, !.StateDefault = t] :
        u \in {EmptyMap, (U1 :> 50), (U1 :> 100), (U1 :> 50) @@ (UP :> 100)},
        e \in {EmptyMap, ("m.room.name" :> 50)},
        d \in {None, Some(0), Some(50)}, t \in {None, Some(50)}}

ObservedPowerLevels ==
    {[ZeroPowerLevelContent EXCEPT !.Users = u, !.Events = e, !.EventsDefault = d,
                                   !.StateDefault = t, !.UsersDefault = Some(0),
                                   !.Ban = b] :
        u \in {EmptyMap, (U1 :> 50), (UP :> 100), (U1 :> 100),
               (U1 :> 50) @@ (UP :> 100)},
        e \in {EmptyMap, ("m.room.name" :> 50),
               ("m.room.name" :> 50) @@ ("m.room.topic" :> 50)},
        d \in {Some(0), Some(50)}, t \in {None, Some(0), Some(50)},
        b \in {None, Some(50)}}

EqSpecsOf(kind) ==
    CASE kind = "User" -> UserEqSpecs
      [] kind = "Room" -> RoomEqSpecs
      [] kind = "PowerLevel" -> PowerLevelEqSpecs

ObservedOf(kind) ==
    CASE kind = "User" -> ObservedUsers
      [] kind = "Room" -> ObservedRooms
      [] kind = "PowerLevel" -> ObservedPowerLevels

InitEq ==
    /\ adminMode = TRUE
    /\ srv = EmptyServer
    /\ \E kind \in {"User", "Room", "PowerLevel"} :
          /\ \E p \in EqSpecsOf(kind) :
                cr = [kind |-> kind, annotations |-> EmptyMap, spec |-> p,
                      status |-> [atProvider |-> ZeroObservation(kind),
                                  conditions |-> {}]]
          /\ \E o \in ObservedOf(kind) :
                last = [op |-> "None", observed |-> o, upToDate |-> FALSE]

Checked(upToDate) ==
    /\ last.op = "None"
    /\ last' = [last EXCEPT !.op = "Check", !.upToDate = upToDate]
    /\ UNCHANGED <<adminMode, cr, srv>>

CheckUserUpToDate ==
    cr.kind = "User" /\ Checked(isUserUpToDate(cr, last.observed))

CheckRoomUpToDate ==
    cr.kind = "Room" /\ Checked(isRoomUpToDate(cr, last.observed))

CheckPowerLevelUpToDate ==
    cr.kind = "PowerLevel" /\ Checked(isPowerLevelUpToDate(cr, last.observed))

NextEq == CheckUserUpToDate \/ CheckRoomUpToDate \/ CheckPowerLevelUpToDate

SpecEq == InitEq /\ [][NextEq]_vars

\* Every optional field of the object's parameters is unset (the room ID of
\* a PowerLevel is required).
AllUnset ==
    CASE cr.kind = "User" -> cr.spec = NoUserParameters
      [] cr.kind = "Room" -> cr.spec = NoRoomParameters
      [] cr.kind = "PowerLevel" ->
            cr.spec = [NoPowerLevelParameters EXCEPT !.RoomID = cr.spec.RoomID]

\* C9 (as the spec states it): with every optional field of the parameters
\* unset, each kind's equality check returns true for every observed state.
C9_UnsetMatchesAnything ==
    (last.op = "Check" /\ AllUnset) => last.upToDate

\* C9, what the code does: with every optional field of the parameters
\* unset, isUserUpToDate and isRoomUpToDate return true for every observed
\* state; isPowerLevelUpToDate returns true exactly when the observed users
\* and events maps are both empty.
C9_UnsetMatches ==
    (last.op = "Check" /\ AllUnset) =>
        IF cr.kind \in {"User", "Room"}
        THEN last.upToDate
        ELSE last.upToDate <=> (/\ MapLen(last.observed.Users) = 0
                                /\ MapLen(last.observed.Events) = 0)

\* Nothing declared for a Room whose room has a name and encryption: up to
\* date.
C9_WitnessRoom ==
    /\ last.op = "Check"
    /\ AllUnset
    /\ cr.kind = "Room"
    /\ last.observed.Name = "Hall"
    /\ last.observed.EncryptionEnabled
    /\ last.upToDate

\* Nothing declared for a PowerLevel, the room has one user in its power
\* levels and no event: isPowerLevelUpToDate returns false.
C9_WitnessPowerLevel ==
    /\ last.op = "Check"
    /\ AllUnset
    /\ cr.kind = "PowerLevel"
    /\ ~IsSet(cr.spec.Users)
    /\ last.observed.Users = (UP :> 100)
    /\ MapLen(last.observed.Events) = 0
    /\ ~last.upToDate

PowerLevelObserved ==
    last.op = "Observe" /\ last.pre.kind = "PowerLevel" /\ last.exists

\* C10: an Observe of a PowerLevel whose declared users map and observed
\* users map, or declared and observed events maps, have different numbers
\* of keys reports it not up to date, whatever the values of the keys they
\* share; Update of a PowerLevel calls SetPowerLevels exactly once and sends
\* at most one request, which when it succeeds leaves the room with the
\* declared users.
C10_KeyCountMismatch ==
    /\ (/\ PowerLevelObserved
        /\ \/ MapLen(last.pre.spec.Users) # MapLen(cr.status.atProvider.Users)
           \/ MapLen(last.pre.spec.Events) # MapLen(cr.status.atProvider.Events))
       => ~last.upToDate
    /\ (last.op = "Update" /\ last.pre.kind = "PowerLevel") =>
          /\ CallNames(last.calls) = <<"SetPowerLevels">>
          /\ Len(last.http) <= 1
          /\ last.err.nil =>
                /\ Len(last.http) = 1
                /\ Deref(srv.rooms[R1].power_levels).Users = last.pre.spec.Users

\* One declared user, the room reporting that user and another at the
\* declared level: not up to date.
C10_Witness ==
    /\ PowerLevelObserved
    /\ last.pre.spec.Users = (U1 :> 50)
    /\ cr.status.atProvider.Users = (U1 :> 50) @@ (UP :> 100)
    /\ MapLen(last.pre.spec.Events) = MapLen(cr.status.atProvider.Events)
    /\ ~last.upToDate

\* One declared user against a room reporting none, then the Update.
C10_WitnessOneAgainstNone ==
    /\ last.op = "Update"
    /\ last.pre.kind = "PowerLevel"
    /\ last.pre.spec.Users = (U1 :> 50)
    /\ MapLen(last.pre.status.atProvider.Users) = 0
    /\ last.pre.status.conditions # {}
    /\ MapLen(Deref(last.presrv.rooms[R1].power_levels).Users) = 0
    /\ last.err.nil


-----------------------------------------------------------------------------
(* C11: the equality checks as "declared subset must match" *)

\* A declared optional value differs from the observed value.
SetAndDiffers(declared, observed) == IsSet(declared) /\ Deref(declared) # observed

\* A declared optional value differs from an observed optional value; an
\* observed value the server did not report differs from every declared one.
SetAndDiffersPtr(declared, observed) ==
    IsSet(declared) /\ (~IsSet(observed) \/ Deref(declared) # Deref(observed))

\* Some declared field of the object differs from the observed value it
\* corresponds to.
DeclaredDiffers(c, observed) ==
    LET p == c.spec
    IN CASE c.kind = "User" ->
              \/ SetAndDiffers(p.DisplayName, observed.DisplayName)
              \/ SetAndDiffers(p.AvatarURL, observed.AvatarURL)
              \/ SetAndDiffers(p.Admin, observed.Admin)
              \/ SetAndDiffers(p.Deactivated, observed.Deactivated)
              \/ SetAndDiffers(p.UserType, observed.UserType)
         [] c.kind = "Room" ->
              \/ SetAndDiffers(p.Name, observed.Name)
              \/ SetAndDiffers(p.Topic, observed.Topic)
              \/ SetAndDiffers(p.Alias, observed.Alias)
              \/ SetAndDiffers(p.Visibility, observed.Visibility)
              \/ SetAndDiffers(p.GuestAccess, observed.GuestAccess)
              \/ SetAndDiffers(p.HistoryVisibility, observed.HistoryVisibility)
              \/ SetAndDiffers(p.JoinRules, observed.JoinRules)
              \/ SetAndDiffers(p.EncryptionEnabled, observed.EncryptionEnabled)
              \/ SetAndDiffers(p.AvatarURL, observed.AvatarURL)
         [] c.kind = "PowerLevel" ->
              \/ ~MapEntriesMatch(p.Users, observed.Users)
              \/ ~MapEntriesMatch(p.Events, observed.Events)
              \/ SetAndDiffersPtr(p.EventsDefault, observed.EventsDefault)
              \/ SetAndDiffersPtr(p.StateDefault, observed.StateDefault)
              \/ SetAndDiffersPtr(p.UsersDefault, observed.UsersDefault)
              \/ SetAndDiffersPtr(p.Ban, observed.Ban)
              \/ SetAndDiffersPtr(p.Kick, observed.Kick)
              \/ SetAndDiffersPtr(p.Redact, observed.Redact)
              \/ SetAndDiffersPtr(p.Invite, observed.Invite)

\* C11: for every kind the equality check returns false whenever a declared
\* field differs from the observed value (a value the server does not report
\* included), and returns false only then: an unset field never makes it
\* false.
C11_DeclaredSubsetMustMatch ==
    last.op = "Check" => (last.upToDate <=> ~DeclaredDiffers(cr, last.observed))

\* A PowerLevel declaring stateDefault = 50 against power levels in which the
\* server reports no state default, all else matching: found up to date.
C11_WitnessUnreportedValue ==
    /\ last.op = "Check"
    /\ cr.kind = "PowerLevel"
    /\ cr.spec.StateDefault = Some(50)
    /\ last.observed.StateDefault = None
    /\ DeclaredDiffers(cr, last.observed)
    /\ last.upToDate

\* A PowerLevel declaring no users against power levels that list one: found
\* not up to date although no declared field differs.
C11_WitnessUnsetCausesFalse ==
    /\ last.op = "Check"
    /\ cr.kind = "PowerLevel"
    /\ MapLen(cr.spec.Users) = 0
    /\ last.observed.Users = (UP :> 100)
    /\ ~DeclaredDiffers(cr, last.observed)
    /\ ~last.upToDate

\* The User and Room checks on the fields they compare, and the PowerLevel
\* check when both sides report every declared value and as many map keys.
C11_ComparedFields ==
    (/\ last.op = "Check"
     /\ cr.kind = "Room" => ~SetAndDiffers(cr.spec.Visibility, last.observed.Visibility)
     /\ cr.kind = "PowerLevel" =>
           /\ MapLen(cr.spec.Users) = MapLen(last.observed.Users)
           /\ MapLen(cr.spec.Events) = MapLen(last.observed.Events)
           /\ IsSet(cr.spec.StateDefault) => IsSet(last.observed.StateDefault))
    => (last.upToDate <=> ~DeclaredDiffers(cr, last.observed))


-----------------------------------------------------------------------------
(* validateMatrixID on its own: a text and an identifier type, and the      *)
(* validation applied to them.                                             *)

MaxIDLen == 4

IDChars == {"@", "!", "#", ":", "a"}

IDTexts == UNION {[1..n -> IDChars] : n \in 0..MaxIDLen}

IDTypes == {"user", "room", "alias"}

InitID ==
    /\ adminMode = TRUE
    /\ srv = EmptyServer
    /\ \E t \in IDTypes, m \in IDTexts :
          cr = [kind |-> "MatrixID", matrixID |-> m, idType |-> t]
    /\ last = [op |-> "None", err |-> NilErr]

ValidateMatrixIDCall ==
    /\ last.op = "None"
    /\ last' = [op |-> "validateMatrixID",
                err |-> validateMatrixID(cr.matrixID, cr.idType)]
    /\ UNCHANGED <<adminMode, cr, srv>>

\* extractDomain returning what follows the first colon, however many
\* colons there are.
extractDomainAfterFirstColon(matrixID) ==
    IF SplitCount(matrixID, ":") >= 2
    THEN SubSeq(matrixID,
                (CHOOSE i \in 1..Len(matrixID) :
                    /\ matrixID[i] = ":"
                    /\ \A j \in 1..(i - 1) : matrixID[j] # ":") + 1,
                Len(matrixID))
    ELSE NoText

\* strings.Split(matrixID, ":") has two parts when there is one colon; the
\* second part is what follows it.
extractDomain(matrixID) ==
    IF SplitCount(matrixID, ":") = 2
    THEN SubSeq(matrixID, (CHOOSE i \in 1..Len(matrixID) : matrixID[i] = ":") + 1,
                Len(matrixID))
    ELSE NoText

ExtractDomainCall ==
    /\ last.op = "None"
    /\ last' = [op |-> "extractDomain", err |-> NilErr,
                domain |-> extractDomain(cr.matrixID)]
    /\ UNCHANGED <<adminMode, cr, srv>>

NextID == ValidateMatrixIDCall \/ ExtractDomainCall

SpecID == InitID /\ [][NextID]_vars

SigilOf(idType) ==
    CASE idType = "user" -> "@"
      [] idType = "room" -> "!"
      [] idType = "alias" -> "#"

\* The positions of the colons after the first character.
ColonsAfterSigil(m) == {i \in 2..Len(m) : m[i] = ":"}

StartsWithSigil(m, idType) == Len(m) >= 1 /\ m[1] = SigilOf(idType)

\* ^S[^:]+:[^:]+$ for the sigil S of the type: the sigil, a non-empty local
\* part without a colon, one colon, a non-empty domain without a colon.
MatchesPattern(m, idType) ==
    /\ StartsWithSigil(m, idType)
    /\ \E i \in 3..(Len(m) - 1) : ColonsAfterSigil(m) = {i}

Validated == last.op = "validateMatrixID"

\* C12: validateMatrixID returns an error for every text that does not start
\* with the sigil of the type and for every text whose remainder after the
\* sigil holds no colon or more than one; it returns no error for a
\* well-formed identifier (sigil, local part, one colon, domain).
C12_SigilAndOneColon ==
    Validated =>
        /\ ~StartsWithSigil(cr.matrixID, cr.idType) => ~last.err.nil
        /\ Cardinality(ColonsAfterSigil(cr.matrixID)) # 1 => ~last.err.nil
        /\ MatchesPattern(cr.matrixID, cr.idType) => last.err.nil

\* "@a:a:" as a user ID: two colons after the sigil, rejected.
C12_Witness ==
    /\ Validated
    /\ cr.idType = "user"
    /\ cr.matrixID = <<"@", "a", ":", ":">>
    /\ ~last.err.nil

\* "!a:a" as a room ID: accepted.
C12_WitnessAccepted ==
    /\ Validated
    /\ cr.idType = "room"
    /\ cr.matrixID = <<"!", "a", ":", "a">>
    /\ last.err.nil

\* C13: validateMatrixID accepts a text exactly when it matches the pattern
\* of the type (^@[^:]+:[^:]+$, ^![^:]+:[^:]+$, ^#[^:]+:[^:]+$); it rejects an
\* empty local part or domain, and it returns an error for the empty text.
C13_AcceptsExactlyThePattern ==
    Validated => (last.err.nil <=> MatchesPattern(cr.matrixID, cr.idType))

\* "@:" as a user ID: no local part and no domain, accepted.
C13_WitnessEmptyParts ==
    /\ Validated
    /\ cr.idType = "user"
    /\ cr.matrixID = <<"@", ":">>
    /\ ~MatchesPattern(cr.matrixID, cr.idType)
    /\ last.err.nil

\* The empty text: an error is returned for each type.
C13_EmptyTextRejected ==
    (Validated /\ cr.matrixID = NoText) => ~last.err.nil


-----------------------------------------------------------------------------
(* The wire client on its own: one call of one operation of the Client      *)
(* interface, with its arguments, against a homeserver.                    *)

\* Identifier arguments: a user ID, a room ID and an alias (each malformed
\* for the other two types), a text with no sigil, and the empty text.
WireIDs == {U1, R1, A1, BadID, NoText}

WireUserSpec(userID) ==
    generateUserSpec([spec |-> [NoUserParameters EXCEPT !.UserID = Some(userID),
                                                        !.DisplayName = Some("Al")]])

\* Name, preset, encryption and an invite list; nothing; every follow-up
\* field; some of them; encryption declared off; the name the present room
\* already has, with a topic it does not have.
WireRoomParameters ==
    {[NoRoomParameters EXCEPT !.Name = Some("Team"), !.Preset = Some("private_chat"),
                              !.EncryptionEnabled = Some(TRUE), !.Invite = <<U1>>],
     NoRoomParameters,
     [NoRoomParameters EXCEPT !.GuestAccess = Some("forbidden"),
                              !.HistoryVisibility = Some("joined"),
                              !.JoinRules = Some("public"),
                              !.EncryptionEnabled = Some(TRUE),
                              !.AvatarURL = Some("mxc://x/a")],
     [NoRoomParameters EXCEPT !.Name = Some("Hall"), !.Topic = Some("News"),
                              !.GuestAccess = Some("forbidden"),
                              !.AvatarURL = Some("mxc://x/a")],
     [NoRoomParameters EXCEPT !.JoinRules = Some("public"),
                              !.EncryptionEnabled = Some(FALSE)],
     [NoRoomParameters EXCEPT !.Name = Some("Lobby"), !.Topic = Some("News")]}

WireRoomSpecs == {generateRoomSpec([spec |-> p]) : p \in WireRoomParameters}

WirePowerLevelSpec(roomID) ==
    generatePowerLevelSpec([spec |-> [NoPowerLevelParameters EXCEPT
                                         !.RoomID = roomID, !.Users = (U1 :> 50)]])

WireCalls ==
    {Call("CreateUser", <<WireUserSpec(i)>>) : i \in WireIDs}
    \cup {Call("GetUser", <<i>>) : i \in WireIDs}
    \cup {Call("UpdateUser", <<i, WireUserSpec(U1)>>) : i \in WireIDs}
    \cup {Call("DeactivateUser", <<i>>) : i \in WireIDs}
    \cup {Call("CreateRoom", <<rs>>) : rs \in WireRoomSpecs}
    \cup {Call("GetRoom", <<i>>) : i \in WireIDs}
    \cup {Call("UpdateRoom", <<i, rs>>) : i \in WireIDs, rs \in WireRoomSpecs}
    \cup {Call("DeleteRoom", <<i>>) : i \in WireIDs}
    \cup {Call("SetPowerLevels", <<i, WirePowerLevelSpec(R1)>>) : i \in WireIDs}
    \cup {Call("GetPowerLevels", <<i>>) : i \in WireIDs}
    \cup {Call("CreateRoomAlias", <<i, j>>) : i \in WireIDs, j \in WireIDs}
    \cup {Call("GetRoomAlias", <<i>>) : i \in WireIDs}
    \cup {Call("DeleteRoomAlias", <<i>>) : i \in WireIDs}

\* A homeserver with nothing but the provider's account, and one with a
\* user, a room and an alias bound to the room; each with and without the key
\* user_id in its JSON for an account.
WireServers ==
    {[s EXCEPT !.user_id_key = k] :
        s \in {EmptyServer,
               [EmptyServer EXCEPT !.users[U1] = PresentUser,
                                   !.rooms[R1] = PresentRoom, !.aliases[A1] = R1]},
        k \in BOOLEAN}

InitWire ==
    /\ adminMode \in BOOLEAN
    /\ srv \in WireServers
    /\ \E c \in WireCalls : cr = [kind |-> "Wire", op |-> c.name, args |-> c.args]
    /\ last = [op |-> "None", pend |-> "", sched |-> NoFaults, presrv |-> srv,
               faults |-> {}, http |-> <<>>, err |-> NilErr, val |-> FALSE]

\* The wire client goes one request further in the call: r is the call up to
\* and with its next request, r2 the call one request past that.  When the
\* call returns, the server is as it left it, and last holds what the call
\* sent and returned.
WireServed(r, r2, sched) ==
    /\ Failing(sched, Sent + 1) => Len(r.http) = Sent + 1
    /\ srv' = IF Returns(r2) THEN r2.srv ELSE r.srv
    /\ last' = IF Returns(r2)
                THEN [op |-> cr.op, pend |-> "", sched |-> [sched EXCEPT !.limit = None],
                      presrv |-> PreSrv, faults |-> sched.down, http |-> r2.http,
                      err |-> r2.err, val |-> r2.val]
                ELSE [op |-> "Pending", pend |-> cr.op, sched |-> sched,
                      presrv |-> PreSrv, faults |-> sched.down, http |-> r.http,
                      err |-> NilErr, val |-> FALSE]
    /\ UNCHANGED <<adminMode, cr>>

WireCall(op) == cr.kind = "Wire" /\ cr.op = op /\ last.op \in {"None", "Pending"}

WireCreateUser ==
    /\ WireCall("CreateUser")
    /\ \E f \in BOOLEAN :
          /\ MayFail(f)
          /\ WireServed(CreateUser(PreSrv, adminMode, cr.args[1], NextSched(f), 0),
                        CreateUser(PreSrv, adminMode, cr.args[1], After(NextSched(f)), 0),
                        NextSched(f))

WireGetUser ==
    /\ WireCall("GetUser")
    /\ \E f \in BOOLEAN :
          /\ MayFail(f)
          /\ WireServed(GetUser(PreSrv, adminMode, cr.args[1], NextSched(f), 0),
                        GetUser(PreSrv, adminMode, cr.args[1], After(NextSched(f)), 0),
                        NextSched(f))

WireUpdateUser ==
    /\ WireCall("UpdateUser")
    /\ \E f \in BOOLEAN :
          /\ MayFail(f)
          /\ WireServed(UpdateUser(PreSrv, adminMode, cr.args[1], cr.args[2], NextSched(f), 0),
                        UpdateUser(PreSrv, adminMode, cr.args[1], cr.args[2], After(NextSched(f)), 0),
                        NextSched(f))

WireDeactivateUser ==
    /\ WireCall("DeactivateUser")
    /\ \E f \in BOOLEAN :
          /\ MayFail(f)
          /\ WireServed(DeactivateUser(PreSrv, adminMode, cr.args[1], NextSched(f), 0),
                        DeactivateUser(PreSrv, adminMode, cr.args[1], After(NextSched(f)), 0),
                        NextSched(f))

WireCreateRoom ==
    /\ WireCall("CreateRoom")
    /\ \E f \in BOOLEAN :
          /\ MayFail(f)
          /\ WireServed(CreateRoom(PreSrv, adminMode, cr.args[1], NextSched(f), 0),
                        CreateRoom(PreSrv, adminMode, cr.args[1], After(NextSched(f)), 0),
                        NextSched(f))

WireGetRoom ==
    /\ WireCall("GetRoom")
    /\ \E f \in BOOLEAN :
          /\ MayFail(f)
          /\ WireServed(GetRoom(PreSrv, adminMode, cr.args[1], NextSched(f), 0),
                        GetRoom(PreSrv, adminMode, cr.args[1], After(NextSched(f)), 0),
                        NextSched(f))

WireUpdateRoom ==
    /\ WireCall("UpdateRoom")
    /\ \E f \in BOOLEAN :
          /\ MayFail(f)
          /\ WireServed(UpdateRoom(PreSrv, adminMode, cr.args[1], cr.args[2], NextSched(f), 0),
                        UpdateRoom(PreSrv, adminMode, cr.args[1], cr.args[2], After(NextSched(f)), 0),
                        NextSched(f))

WireDeleteRoom ==
    /\ WireCall("DeleteRoom")
    /\ \E f \in BOOLEAN :
          /\ MayFail(f)
          /\ WireServed(DeleteRoom(PreSrv, adminMode, cr.args[1], NextSched(f), 0),
                        DeleteRoom(PreSrv, adminMode, cr.args[1], After(NextSched(f)), 0),
                        NextSched(f))

WireSetPowerLevels ==
    /\ WireCall("SetPowerLevels")
    /\ \E f \in BOOLEAN :
          /\ MayFail(f)
          /\ WireServed(SetPowerLevels(PreSrv, cr.args[1], cr.args[2], NextSched(f), 0),
                        SetPowerLevels(PreSrv, cr.args[1], cr.args[2], After(NextSched(f)), 0),
                        NextSched(f))

WireGetPowerLevels ==
    /\ WireCall("GetPowerLevels")
    /\ \E f \in BOOLEAN :
          /\ MayFail(f)
          /\ WireServed(GetPowerLevels(PreSrv, cr.args[1], NextSched(f), 0),
                        GetPowerLevels(PreSrv, cr.args[1], After(NextSched(f)), 0),
                        NextSched(f))

WireCreateRoomAlias ==
    /\ WireCall("CreateRoomAlias")
    /\ \E f \in BOOLEAN :
          /\ MayFail(f)
          /\ WireServed(CreateRoomAlias(PreSrv, cr.args[1], cr.args[2], NextSched(f), 0),
                        CreateRoomAlias(PreSrv, cr.args[1], cr.args[2], After(NextSched(f)), 0),
                        NextSched(f))

WireGetRoomAlias ==
    /\ WireCall("GetRoomAlias")
    /\ \E f \in BOOLEAN :
          /\ MayFail(f)
          /\ WireServed(GetRoomAlias(PreSrv, cr.args[1], NextSched(f), 0),
                        GetRoomAlias(PreSrv, cr.args[1], After(NextSched(f)), 0),
                        NextSched(f))

WireDeleteRoomAlias ==
    /\ WireCall("DeleteRoomAlias")
    /\ \E f \in BOOLEAN :
          /\ MayFail(f)
          /\ WireServed(DeleteRoomAlias(PreSrv, cr.args[1], NextSched(f), 0),
                        DeleteRoomAlias(PreSrv, cr.args[1], After(NextSched(f)), 0),
                        NextSched(f))

\* Other clients change the server while the call is between two requests.
WireInterference ==
    /\ cr.kind = "Wire"
    /\ Pending
    /\ (ServerRoomRemoved \/ ServerAliasRemoved \/ ServerAliasBound
          \/ ServerUserRenamed)

NextWire ==
    \/ WireCreateUser \/ WireGetUser \/ WireUpdateUser \/ WireDeactivateUser
    \/ WireCreateRoom \/ WireGetRoom \/ WireUpdateRoom \/ WireDeleteRoom
    \/ WireSetPowerLevels \/ WireGetPowerLevels
    \/ WireCreateRoomAlias \/ WireGetRoomAlias \/ WireDeleteRoomAlias
    \/ WireInterference

SpecWire == InitWire /\ [][NextWire]_vars


WireDone == cr.kind = "Wire" /\ last.op \notin {"None", "Pending"}

\* The identifier arguments of the call, each with the type it must have.
IdentifierArgs ==
    CASE cr.op = "CreateUser" -> {<<cr.args[1].UserID, "user">>}
      [] cr.op \in {"GetUser", "UpdateUser", "DeactivateUser"} ->
            {<<cr.args[1], "user">>}
      [] cr.op \in {"GetRoom", "UpdateRoom", "DeleteRoom", "SetPowerLevels",
                    "GetPowerLevels"} -> {<<cr.args[1], "room">>}
      [] cr.op = "CreateRoomAlias" -> {<<cr.args[1], "alias">>, <<cr.args[2], "room">>}
      [] cr.op \in {"GetRoomAlias", "DeleteRoomAlias"} -> {<<cr.args[1], "alias">>}
      [] OTHER -> {}

SomeIdentifierMalformed == \E a \in IdentifierArgs : ~MatchesPattern(a[1], a[2])

\* C14: every wire-client operation that takes a user, room or alias
\* identifier returns an error and sends no HTTP request when one of its
\* identifiers is malformed.
C14_MalformedIDSendsNothing ==
    (WireDone /\ SomeIdentifierMalformed) =>
        /\ ~last.err.nil
        /\ last.http = <<>>
        /\ srv = last.presrv

\* CreateUser in admin mode for the user ID "b": the PUT is sent.
C14_WitnessCreateUser ==
    /\ WireDone
    /\ cr.op = "CreateUser"
    /\ adminMode
    /\ cr.args[1].UserID = BadID
    /\ Len(last.http) = 1
    /\ last.http[1].method = "PUT"
    /\ last.http[1].id = BadID

\* The operations other than CreateUser: a malformed identifier gives an
\* error and no request.
C14_OtherOperations ==
    (WireDone /\ SomeIdentifierMalformed /\ cr.op # "CreateUser") =>
        /\ ~last.err.nil
        /\ last.http = <<>>
        /\ srv = last.presrv

\* CreateRoomAlias with a well-formed alias and a malformed room ID.
C14_WitnessAliasRoomID ==
    /\ WireDone
    /\ cr.op = "CreateRoomAlias"
    /\ cr.args = <<A1, BadID>>
    /\ ~last.err.nil
    /\ last.http = <<>>


\* The state writes of a call: its PUT requests, in the order sent.
WritesOf(http) == SelectSeq(http, LAMBDA q : q.method = "PUT")

WriteTypes(http) == [i \in 1..Len(WritesOf(http)) |-> WritesOf(http)[i].body.type]

\* The follow-up writes CreateRoom owes a room spec: one for each field that
\* is set, in the order guest access, history visibility, join rules,
\* encryption, avatar.
FollowUpTypes(roomSpec) ==
    (IF roomSpec.GuestAccess # "" THEN <<"m.room.guest_access">> ELSE <<>>)
    \o (IF roomSpec.HistoryVisibility # "" THEN <<"m.room.history_visibility">>
        ELSE <<>>)
    \o (IF roomSpec.JoinRules # "" THEN <<"m.room.join_rules">> ELSE <<>>)
    \o (IF roomSpec.EncryptionEnabled THEN <<"m.room.encryption">> ELSE <<>>)
    \o (IF roomSpec.AvatarURL # "" THEN <<"m.room.avatar">> ELSE <<>>)

IsPrefix(a, b) == Len(a) <= Len(b) /\ a = SubSeq(b, 1, Len(a))

RoomCreatedByWire == WireDone /\ cr.op = "CreateRoom"

\* The spec of the scenario: name, preset, encryption and an invite list.
ScenarioRoomSpec == cr.args[1].Name = "Team"

\* C15: CreateRoom sends exactly one room-creation request, first; the state
\* writes that follow are those of the fields that are set, in the order
\* guest access, history visibility, join rules, encryption, avatar, up to the
\* first that fails; every request after the writes is a read.  For a spec
\* with only name, preset, encryptionEnabled = true and an invite list there
\* is exactly one write, the encryption event.
C15_CreateThenWritesInOrder ==
    RoomCreatedByWire =>
        /\ Len(last.http) >= 1
        /\ last.http[1].method = "POST"
        /\ last.http[1].path = "/_matrix/client/v3/createRoom"
        /\ \A i \in 2..Len(last.http) : last.http[i].method \in {"PUT", "GET"}
        /\ \A i, j \in 2..Len(last.http) :
              (last.http[i].method = "PUT" /\ last.http[j].method = "GET") => i < j
        /\ IsPrefix(WriteTypes(last.http), FollowUpTypes(cr.args[1]))
        /\ last.err.nil => WriteTypes(last.http) = FollowUpTypes(cr.args[1])
        /\ ScenarioRoomSpec =>
              /\ last.http[1].body.Name = "Team"
              /\ last.http[1].body.Preset = "private_chat"
              /\ last.http[1].body.Invite = <<U1>>
        /\ (ScenarioRoomSpec /\ 1 \notin last.faults) =>
              /\ WriteTypes(last.http) = <<"m.room.encryption">>
              /\ last.http[2].method = "PUT"

C15_Witness ==
    /\ RoomCreatedByWire
    /\ ScenarioRoomSpec
    /\ last.err.nil
    /\ Len(last.http) >= 3
    /\ WriteTypes(last.http) = <<"m.room.encryption">>

\* All five follow-up fields set: five writes in the fixed order.
C15_WitnessAllFive ==
    /\ RoomCreatedByWire
    /\ last.err.nil
    /\ Len(WriteTypes(last.http)) = 5

\* All five follow-up fields set, the fifth write failed.
C15_WitnessFifthWriteFailed ==
    /\ RoomCreatedByWire
    /\ last.faults = {6}
    /\ Len(WriteTypes(last.http)) = 5
    /\ Len(last.http) = 6
    /\ ~last.err.nil

\* Another client removed the room after the first write: the second write
\* was refused and no third was sent.
C15_WitnessRoomRemoved ==
    /\ RoomCreatedByWire
    /\ last.faults = {}
    /\ Len(FollowUpTypes(cr.args[1])) >= 3
    /\ Len(WriteTypes(last.http)) = 2
    /\ Len(last.http) = 3
    /\ ~last.err.nil


-----------------------------------------------------------------------------
(* C16, C17: a Room created with follow-up state *)

\* An Observe of a Room that declares encryption, whose room is on the
\* server with the encryption event that CreateRoom wrote.
EncryptedRoomObserved ==
    /\ last.op = "Observe"
    /\ last.pre.kind = "Room"
    /\ last.pre.spec.EncryptionEnabled = Some(TRUE)
    /\ GetExternalName(last.pre) \in ServerRoomIDs
    /\ last.presrv.rooms[GetExternalName(last.pre)].exists
    /\ last.presrv.rooms[GetExternalName(last.pre)].encryption = AlgorithmMegolmV1
    /\ last.err.nil
    /\ last.exists

\* C16: once a Room was created with encryptionEnabled = true and the
\* encryption event was written, the observation that Observe produces has
\* EncryptionEnabled = true, in admin mode and through the standard API.
C16_EncryptionObserved ==
    EncryptedRoomObserved => cr.status.atProvider.EncryptionEnabled

\* Standard API, no request failed: the room is encrypted on the server and
\* is observed as not encrypted, hence as not up to date.
C16_WitnessFallback ==
    /\ EncryptedRoomObserved
    /\ ~adminMode
    /\ last.faults = {}
    /\ ~cr.status.atProvider.EncryptionEnabled
    /\ ~last.upToDate

\* Through the admin endpoint, when it answers, encryption is observed.
C16_AdminEndpoint ==
    (EncryptedRoomObserved /\ adminMode /\ 1 \notin last.faults) =>
        cr.status.atProvider.EncryptionEnabled

\* The rooms that are on a server.
RoomsOn(s) == {r \in ServerRoomIDs : s.rooms[r].exists}

\* A Create of a Room failed after its creation request had succeeded: the
\* server has one room more than before.
PartialCreate ==
    /\ last.op = "Create"
    /\ last.pre.kind = "Room"
    /\ ~last.err.nil
    /\ RoomsOn(srv) # RoomsOn(last.presrv)

\* C17: after a Create that failed partway, the next Observe of the same
\* object (no request failing) reports the created room as existing, so that
\* the reconcile runs Update against it and does not run Create again.
C17_PartialCreateRecoversByUpdate ==
    PartialCreate => RoomObserve(cr, srv, adminMode, NoFaults).exists

\* The failed Create left a room on the server and no external name on the
\* object: the next Observe issues no call and reports that nothing exists.
C17_WitnessOrphan ==
    /\ PartialCreate
    /\ GetExternalName(cr) = NoText
    /\ Cardinality(RoomsOn(srv)) = Cardinality(RoomsOn(last.presrv)) + 1
    /\ RoomObserve(cr, srv, adminMode, NoFaults) = Result(cr, srv, NilErr, FALSE, FALSE, <<>>, <<>>)

\* A second Create succeeded: both rooms of the server carry the guest
\* access that only CreateRoom writes, and the object names the second.
C17_WitnessSecondRoom ==
    /\ last.op = "Create"
    /\ last.pre.kind = "Room"
    /\ last.err.nil
    /\ GetExternalName(last.pre) = NoText
    /\ GetExternalName(cr) \in ServerRoomIDs
    /\ srv.rooms[GetExternalName(cr)].guest_access = "forbidden"
    /\ \E r \in ServerRoomIDs \ {GetExternalName(cr)} :
          /\ last.presrv.rooms[r].guest_access = "forbidden"
          /\ srv.rooms[r].guest_access = "forbidden"


-----------------------------------------------------------------------------
(* IsNotFound on its own: an error and the classification of it *)

\* A room ID whose local part is "404".
R404 == <<"!", "4", "0", "4", ":", "x">>

\* A mautrix.HTTPError without a RespError (the reply had no Matrix error
\* body): "failed to METHOD path: HTTP status".
MautrixErrNoResp(method, path, id, status) ==
    [nil |-> FALSE, typed |-> TRUE, code |-> "",
     msg |-> <<Lit("failed to "), Lit(method), Lit(" "), Lit(path), Dyn(id),
               Lit(": HTTP "), Dyn(StatusText(status))>>]

\* Texts of plain errors: "Not Found", "NOT FOUND", "notfound", "x404",
\* "40 4", "gone".
PlainTexts ==
    {<<"N","o","t"," ","F","o","u","n","d">>, <<"N","O","T"," ","F","O","U","N","D">>,
     <<"n","o","t","f","o","u","n","d">>, <<"x","4","0","4">>, <<"4","0"," ","4">>,
     <<"g","o","n","e">>}

BareErrors ==
    {MautrixErr(m, RoomPath, id, "", st) :
        m \in {"GET", "PUT", "DELETE"}, id \in {R1, R404}, st \in {400, 404, 500}}
    \cup {MautrixErrNoResp(m, RoomPath, id, st) :
            m \in {"GET", "PUT"}, id \in {R1, R404}, st \in {404, 500}}
    \cup {AdminStatusErr(st) : st \in {400, 404, 500}}
    \cup {ErrNew(<<Dyn(t)>>) : t \in PlainTexts}
    \cup {ErrNew(<<Dyn(<<"4", "0">>), Dyn(<<"4">>)>>),
          ErrNew(<<Dyn(<<"n", "o", "t">>), Dyn(<<" ", "f", "o", "u", "n", "d">>)>>)}
    \cup {validateMatrixID(BadID, "room"), validateMatrixID(<<"!", "4", "0", "4">>, "room")}

ErrInputs ==
    {NilErr} \cup BareErrors \cup {Wrap(e, "failed to get power levels") : e \in BareErrors}

InitErr ==
    /\ adminMode = TRUE
    /\ srv = EmptyServer
    /\ \E e \in ErrInputs : cr = [kind |-> "Error", err |-> e]
    /\ last = [op |-> "None", notFound |-> FALSE]

IsNotFoundCall ==
    /\ cr.kind = "Error"
    /\ last.op = "None"
    /\ last' = [op |-> "IsNotFound", notFound |-> IsNotFound(cr.err)]
    /\ UNCHANGED <<adminMode, cr, srv>>

NextErr == IsNotFoundCall

SpecErr == InitErr /\ [][NextErr]_vars

Classified == cr.kind = "Error" /\ last.op = "IsNotFound"

\* C18: IsNotFound(err) is true exactly when err is not nil and carries the
\* code M_NOT_FOUND, or its message contains "404", or its message contains
\* "not found" in any case; and wrapping the error with an operation name
\* does not change the classification.
C18_NotFoundClassification ==
    Classified =>
        /\ last.notFound <=>
              /\ ~cr.err.nil
              /\ \/ cr.err.code = "M_NOT_FOUND"
                 \/ MsgContains404(cr.err.msg)
                 \/ MsgContainsNotFound(cr.err.msg)
        /\ last.notFound = IsNotFound(Wrap(cr.err, "failed to get room alias"))

\* A bare HTTP error with code M_UNKNOWN and status 500 for room !404:x:
\* not "not found" bare, "not found" once wrapped.
C18_WitnessBareAndWrappedDiffer ==
    /\ Classified
    /\ cr.err = MautrixErr("GET", RoomPath, R404, "", 500)
    /\ MsgContains404(cr.err.msg)
    /\ ~last.notFound
    /\ IsNotFound(Wrap(cr.err, "failed to get room alias"))

\* A bare HTTP error whose reply was a 404 without a Matrix error body.
C18_WitnessNoErrorBody ==
    /\ Classified
    /\ cr.err = MautrixErrNoResp("GET", RoomPath, R1, 404)
    /\ ~last.notFound

\* For the errors that are not bare HTTP errors, which is every error the
\* wire client returns, the classification is by the text of the message;
\* nil is never not-found.
C18_WrappedByText ==
    (Classified /\ ~cr.err.typed) =>
        (last.notFound <=> (/\ ~cr.err.nil
                            /\ \/ MsgContains404(cr.err.msg)
                               \/ MsgContainsNotFound(cr.err.msg)))


-----------------------------------------------------------------------------
(* C19: the operations that need the admin API *)

\* The error each admin-only operation returns without an admin client.
RequiresAdminError ==
    CASE cr.op = "CreateUser" ->
            ErrNew(<<Lit("user creation requires admin API access")>>)
      [] cr.op = "DeactivateUser" ->
            ErrNew(<<Lit("user deactivation requires admin API access")>>)
      [] cr.op = "DeleteRoom" ->
            ErrNew(<<Lit("room deletion requires admin API access")>>)

AdminOnlyCalled == WireDone /\ cr.op \in {"CreateUser", "DeactivateUser", "DeleteRoom"}

\* C19: with admin mode off, CreateUser, DeactivateUser and DeleteRoom return
\* their "requires admin API access" error for every argument, send no
\* request and leave the server as it was; with admin mode on, every request
\* DeleteRoom sends carries purge = true (and block = false), and it sends one
\* whenever the room ID is well-formed.
C19_AdminOnlyOperations ==
    /\ (AdminOnlyCalled /\ ~adminMode) =>
          /\ last.err = RequiresAdminError
          /\ last.http = <<>>
          /\ srv = last.presrv
    /\ (WireDone /\ cr.op = "DeleteRoom" /\ adminMode) =>
          /\ \A i \in 1..Len(last.http) :
                /\ last.http[i].method = "POST"
                /\ last.http[i].body.purge = TRUE
                /\ last.http[i].body.block = FALSE
          /\ MatchesPattern(cr.args[1], "room") => Len(last.http) = 1

\* DeactivateUser with a malformed user ID and admin mode off: the admin
\* error, not the validation error.
C19_Witness ==
    /\ AdminOnlyCalled
    /\ ~adminMode
    /\ cr.op = "DeactivateUser"
    /\ cr.args[1] = BadID
    /\ last.err = RequiresAdminError

\* DeleteRoom in admin mode removed the room with a purge request.
C19_WitnessPurge ==
    /\ WireDone
    /\ cr.op = "DeleteRoom"
    /\ adminMode
    /\ last.err.nil
    /\ last.http[1].body.purge = TRUE
    /\ last.presrv.rooms[R1].exists
    /\ ~srv.rooms[R1].exists


-----------------------------------------------------------------------------
(* C20: the identity of a User *)

\* @localpart:domain for a local part of one character.
DerivedUserID(localpart) == <<"@", localpart, ":">> \o ServerName

\* The user ID the object stands for: the declared one, or the one derived
\* from the declared local part.
IdentityOf(p) ==
    IF IsSet(p.UserID) THEN Deref(p.UserID) ELSE DerivedUserID(Deref(p.Localpart))

UserCreatedInAdminMode ==
    /\ last.op = "Create"
    /\ last.pre.kind = "User"
    /\ adminMode
    /\ IsSet(last.pre.spec.UserID) \/ IsSet(last.pre.spec.Localpart)

\* C20: Create of a User sends its creation request for the declared user ID
\* when there is one, and otherwise for the ID derived from the declared
\* local part and the server's domain; on success that ID is recorded as the
\* external name.
C20_IdentitySuppliedOrDerived ==
    UserCreatedInAdminMode =>
        /\ Len(last.http) = 1
        /\ last.http[1].method = "PUT"
        /\ last.http[1].id = IdentityOf(last.pre.spec)
        /\ last.http[1].body.UserID = IdentityOf(last.pre.spec)
        /\ last.err.nil => GetExternalName(cr) = IdentityOf(last.pre.spec)

\* Only the local part "a" is declared: the request is sent for the empty
\* user ID, the server refuses it and Create fails.
C20_WitnessNotDerived ==
    /\ UserCreatedInAdminMode
    /\ ~IsSet(last.pre.spec.UserID)
    /\ last.pre.spec.Localpart = Some("a")
    /\ IdentityOf(last.pre.spec) = U1
    /\ Len(last.http) = 1
    /\ last.http[1].id = NoText
    /\ last.http[1].body.Localpart = "a"
    /\ last.faults = {}
    /\ ~last.err.nil

\* A declared user ID is used as supplied; the name recorded is the user ID
\* the server's reply holds under user_id.
C20_SuppliedIdentity ==
    (UserCreatedInAdminMode /\ IsSet(last.pre.spec.UserID)) =>
        /\ Len(last.http) = 1
        /\ last.http[1].id = Deref(last.pre.spec.UserID)
        /\ last.err.nil =>
              GetExternalName(cr)
                 = (IF srv.user_id_key THEN Deref(last.pre.spec.UserID) ELSE NoText)

C20_WitnessSupplied ==
    /\ UserCreatedInAdminMode
    /\ last.pre.spec.UserID = Some(U1)
    /\ last.err.nil
    /\ GetExternalName(cr) = U1
    /\ srv.users[U1].exists


-----------------------------------------------------------------------------
(* C21: extractDomain *)

Extracted == cr.kind = "MatrixID" /\ last.op = "extractDomain"

\* The positions of the colons of a text.
ColonsOf(m) == {i \in 1..Len(m) : m[i] = ":"}

\* C21: extractDomain returns the text after the colon when the identifier
\* holds exactly one colon (the empty text when nothing follows it), and the
\* empty text when it holds no colon or more than one.
C21_ExtractDomain ==
    Extracted =>
        /\ \A i \in ColonsOf(cr.matrixID) :
              ColonsOf(cr.matrixID) = {i} =>
                 /\ Len(last.domain) = Len(cr.matrixID) - i
                 /\ \A j \in 1..Len(last.domain) : last.domain[j] = cr.matrixID[i + j]
        /\ Cardinality(ColonsOf(cr.matrixID)) # 1 => last.domain = NoText

\* "@a:a" gives "a".
C21_Witness ==
    /\ Extracted
    /\ cr.matrixID = <<"@", "a", ":", "a">>
    /\ last.domain = <<"a">>

\* "@a:" gives the empty text, and so does "@:a:".
C21_WitnessEmpty ==
    /\ Extracted
    /\ cr.matrixID \in {<<"@", "a", ":">>, <<"@", ":", "a", ":">>}
    /\ last.domain = NoText


-----------------------------------------------------------------------------
(* C22: a follow-up write of CreateRoom that fails *)

\* The text CreateRoom wraps the failure of a follow-up write with.
FollowUpFailureText(evType) ==
    CASE evType = "m.room.guest_access" -> "failed to set guest access"
      [] evType = "m.room.history_visibility" -> "failed to set history visibility"
      [] evType = "m.room.join_rules" -> "failed to set join rules"
      [] evType = "m.room.encryption" -> "failed to enable encryption"
      [] evType = "m.room.avatar" -> "failed to set avatar"

\* What a room of the server holds for a follow-up event type.
FollowUpField(room, evType) ==
    CASE evType = "m.room.guest_access" -> room.guest_access
      [] evType = "m.room.history_visibility" -> room.history_visibility
      [] evType = "m.room.join_rules" -> room.join_rules
      [] evType = "m.room.encryption" -> room.encryption
      [] evType = "m.room.avatar" -> room.avatar

\* The ID the server gave the room of the last CreateRoom call.
CreatedRoom == FreshRoomID(last.presrv)

\* Another client had removed that room when request i of the call was sent.
RemovedBy(i) ==
    \E e \in last.sched.env : e.at <= i /\ ~RoomExists(e.srv, CreatedRoom)

\* The requests of a CreateRoom call that were follow-up writes and failed:
\* the server failed them, or another client had removed the room.
FailedFollowUps ==
    IF RoomCreatedByWire
    THEN {i \in 2..Len(last.http) :
            /\ last.http[i].method = "PUT"
            /\ i \in last.faults \/ RemovedBy(i)}
    ELSE {}

\* The rooms the call left on the server that were not there before.
RoomsAdded == RoomsOn(srv) \ RoomsOn(last.presrv)

\* C22 (as the spec states it): in CreateRoom the first follow-up state
\* write that fails is the last request sent; CreateRoom returns an error
\* that names the failed step and no room; nothing is rolled back, and the
\* room is on the server with the writes that had succeeded.
C22_FailedFollowUpLeavesRoom ==
    \A i \in FailedFollowUps :
        /\ Len(last.http) = i
        /\ ~last.err.nil
        /\ last.err.msg[1] = Lit(FollowUpFailureText(last.http[i].body.type))
        /\ last.val = ZeroRoom
        /\ \A j \in 1..i : last.http[j].method # "DELETE"
        /\ RoomsAdded = {CreatedRoom}
        /\ \A j \in 2..(i - 1) :
              FollowUpField(srv.rooms[CreatedRoom], last.http[j].body.type)
                  = last.http[j].body.content

\* C22: in CreateRoom the first follow-up state write that fails is the last
\* request sent; CreateRoom returns an error that names the failed step and
\* no room; it sends no request that undoes the creation or a write.  The
\* room is on the server, with the writes that had succeeded and without the
\* one that failed, exactly when no other client removed it during the call.
C22_FailedFollowUpAborts ==
    \A i \in FailedFollowUps :
        /\ Len(last.http) = i
        /\ ~last.err.nil
        /\ last.err.msg[1] = Lit(FollowUpFailureText(last.http[i].body.type))
        /\ last.val = ZeroRoom
        /\ \A j \in 1..i : last.http[j].method # "DELETE"
        /\ RoomsAdded = (IF RemovedBy(i) THEN {} ELSE {CreatedRoom})
        /\ ~RemovedBy(i) =>
              /\ \A j \in 2..(i - 1) :
                    FollowUpField(srv.rooms[CreatedRoom], last.http[j].body.type)
                        = last.http[j].body.content
              /\ FollowUpField(srv.rooms[CreatedRoom], last.http[i].body.type)
                    = FollowUpField(ServerCreateRoom(last.presrv,
                                        last.http[1].body).rooms[CreatedRoom],
                                    last.http[i].body.type)

\* Guest access was written, history visibility failed: the room is on the
\* server with the one and not the other, join rules were never sent.
C22_Witness ==
    /\ FailedFollowUps = {3}
    /\ last.faults = {3}
    /\ WriteTypes(last.http) = <<"m.room.guest_access", "m.room.history_visibility">>
    /\ FollowUpTypes(cr.args[1]) # WriteTypes(last.http)
    /\ \E r \in RoomsAdded :
          /\ srv.rooms[r].guest_access = "forbidden"
          /\ srv.rooms[r].history_visibility = "shared"
          /\ srv.rooms[r].join_rules = "invite"
    /\ last.val.RoomID = NoText

\* Guest access was written, then another client removed the room: the write
\* of history visibility was refused, and the call left no room.
C22_WitnessRoomRemoved ==
    /\ FailedFollowUps = {3}
    /\ last.faults = {}
    /\ WriteTypes(last.http) = <<"m.room.guest_access", "m.room.history_visibility">>
    /\ ~last.err.nil
    /\ RoomsAdded = {}

\* The fifth follow-up write failed after four had succeeded.
C22_WitnessFifthWrite ==
    /\ FailedFollowUps = {6}
    /\ last.faults = {6}
    /\ RoomsAdded = {CreatedRoom}
    /\ srv.rooms[CreatedRoom].encryption = AlgorithmMegolmV1


-----------------------------------------------------------------------------
(* C23: GetRoom *)

GetRoomCalled ==
    /\ WireDone
    /\ cr.op = "GetRoom"
    /\ validateMatrixID(cr.args[1], "room").nil

\* The requests of a call that went to an API, in the order sent.
RequestsTo(api) == SelectSeq(last.http, LAMBDA q : q.api = api)

\* The event types of the state reads of a call, in the order sent.
ReadTypes == [i \in 1..Len(RequestsTo("client")) |-> RequestsTo("client")[i].body.type]

FiveReads ==
    <<"m.room.name", "m.room.topic", "m.room.canonical_alias", "m.room.avatar",
      "m.room.power_levels">>

\* The admin endpoint was not asked, or answered with an error.
AdminGaveNoRoom ==
    \/ ~adminMode
    \/ 1 \in last.faults
    \/ ~RoomExists(last.presrv, cr.args[1])

\* The room as the server held it when the k-th of the five reads was sent.
RoomRead(k) == ServerAt(Len(RequestsTo("admin")) + k).rooms[cr.args[1]]

\* The k-th of the five reads was answered with the state event: its request
\* was not failed and the room had the event.
ReadAnswered(k) ==
    /\ (Len(RequestsTo("admin")) + k) \notin last.faults
    /\ ServerHasState(ServerAt(Len(RequestsTo("admin")) + k), cr.args[1],
                      FiveReads[k])

\* C23: GetRoom with a well-formed room ID asks the admin room-details
\* endpoint first when admin mode is on, and returns its room when it answers;
\* otherwise it sends the five state reads name, topic, canonical alias,
\* avatar, power levels, fills each field from the read that was answered,
\* leaves the field of a read that failed at its zero value, and returns no
\* error.  It changes nothing on the server.
C23_GetRoomNeverFails ==
    GetRoomCalled =>
        /\ last.err.nil
        /\ srv = ServerAt(Len(last.http))
        /\ Len(RequestsTo("admin")) = (IF adminMode THEN 1 ELSE 0)
        /\ adminMode => last.http[1].api = "admin"
        /\ ~AdminGaveNoRoom =>
              /\ ReadTypes = <<>>
              /\ last.val = RoomOfServer(cr.args[1], last.presrv.rooms[cr.args[1]])
        /\ AdminGaveNoRoom =>
              /\ ReadTypes = FiveReads
              /\ last.val.RoomID = cr.args[1]
              /\ last.val.Name = (IF ReadAnswered(1) THEN RoomRead(1).name ELSE "")
              /\ last.val.Topic = (IF ReadAnswered(2) THEN RoomRead(2).topic ELSE "")
              /\ last.val.Alias = (IF ReadAnswered(3) THEN RoomRead(3).canonical_alias
                                   ELSE NoText)
              /\ last.val.AvatarURL = (IF ReadAnswered(4) THEN RoomRead(4).avatar
                                       ELSE "")
              /\ IsSet(last.val.PowerLevels) = ReadAnswered(5)

\* Admin mode off, the read of the name failed: the name is empty, the power
\* levels were read, and there is no error.
C23_Witness ==
    /\ GetRoomCalled
    /\ ~adminMode
    /\ last.faults = {1}
    /\ last.presrv.rooms[cr.args[1]].name = "Lobby"
    /\ last.val.Name = ""
    /\ IsSet(last.val.PowerLevels)
    /\ last.err.nil

\* Admin mode on, the room on the server: the admin endpoint failed and the
\* read of the power levels, the fifth, failed; the name was read, the power
\* levels are unset, and there is no error.
C23_WitnessAdminAndFifthRead ==
    /\ GetRoomCalled
    /\ adminMode
    /\ last.faults = {1, 6}
    /\ RoomExists(last.presrv, cr.args[1])
    /\ Len(last.http) = 6
    /\ last.val.Name = "Lobby"
    /\ ~IsSet(last.val.PowerLevels)
    /\ last.err.nil

\* Every request failed: the room returned holds the room ID only.
C23_WitnessAllFailed ==
    /\ GetRoomCalled
    /\ adminMode
    /\ last.faults = 1..6
    /\ RoomExists(last.presrv, cr.args[1])
    /\ last.val = [ZeroRoom EXCEPT !.RoomID = cr.args[1]]
    /\ last.err.nil

\* Admin mode on, the admin endpoint failed: five reads follow it.
C23_WitnessAdminError ==
    /\ GetRoomCalled
    /\ adminMode
    /\ last.faults = {1}
    /\ Len(last.http) = 6
    /\ last.val.Name = "Lobby"
    /\ last.err.nil


-----------------------------------------------------------------------------
(* C24: UpdateRoom *)

\* UpdateRoom was called with a well-formed room ID.
UpdateRoomCalled ==
    /\ WireDone
    /\ cr.op = "UpdateRoom"
    /\ validateMatrixID(cr.args[1], "room").nil

\* UpdateRoom was called for a room that is on the server.
RoomUpdatedByWire == UpdateRoomCalled /\ RoomExists(last.presrv, cr.args[1])

\* The writes of the fields of a room spec whose value is not the one the
\* room has.
ChangedFieldTypes(roomSpec, room) ==
    (IF roomSpec.Name # room.name THEN <<"m.room.name">> ELSE <<>>)
    \o (IF roomSpec.Topic # room.topic THEN <<"m.room.topic">> ELSE <<>>)

\* The writes of the fields of a room spec that are set.
SetFieldTypes(roomSpec) ==
    (IF roomSpec.Name # "" THEN <<"m.room.name">> ELSE <<>>)
    \o (IF roomSpec.Topic # "" THEN <<"m.room.topic">> ELSE <<>>)

UpdateFailureText(evType) ==
    CASE evType = "m.room.name" -> "failed to update room name"
      [] evType = "m.room.topic" -> "failed to update room topic"

\* The value a room spec has for the field of an event type UpdateRoom
\* writes.
DesiredField(roomSpec, evType) ==
    CASE evType = "m.room.name" -> roomSpec.Name
      [] evType = "m.room.topic" -> roomSpec.Topic

\* The requests of an UpdateRoom call that were writes and failed: the
\* server failed them, or the room was not on the server.
RefusedWrites ==
    IF UpdateRoomCalled
    THEN {i \in 1..Len(last.http) :
            /\ last.http[i].method = "PUT"
            /\ i \in last.faults \/ ~RoomExists(ServerAt(i), cr.args[1])}
    ELSE {}

\* C24 (as the spec states it): UpdateRoom writes the name only if the
\* desired name differs from the name the room has and the topic only if
\* the desired topic differs, and writes no other state; a write that fails
\* is the last request and the error names its field.
C24_WritesChangedFieldsOnly ==
    RoomUpdatedByWire =>
        /\ IsPrefix(WriteTypes(last.http),
                    ChangedFieldTypes(cr.args[2], last.presrv.rooms[cr.args[1]]))
        /\ RefusedWrites = {} =>
              WriteTypes(last.http)
                  = ChangedFieldTypes(cr.args[2], last.presrv.rooms[cr.args[1]])
        /\ \A i \in RefusedWrites :
              /\ Len(last.http) = i
              /\ last.err.msg[1] = Lit(UpdateFailureText(last.http[i].body.type))

\* The desired name is the name the room has, and the name is written.
C24_WitnessUnchangedNameWritten ==
    /\ RoomUpdatedByWire
    /\ cr.args[2].Name = "Lobby"
    /\ last.presrv.rooms[cr.args[1]].name = "Lobby"
    /\ last.faults = {}
    /\ Len(last.http) >= 1
    /\ last.http[1].method = "PUT"
    /\ last.http[1].body = [type |-> "m.room.name", content |-> "Lobby"]

\* C24: UpdateRoom, whether or not the room is on the server and whatever
\* the room holds, sends one write for the name if the desired name is set
\* and one for the topic if the desired topic is set, in that order, each
\* with the desired value, and writes nothing else; it reads nothing before
\* its writes.  A write that fails, the server failing it or the room not
\* being there, is the last request, and UpdateRoom returns no room and an
\* error that starts with the text of its field.  When no write fails
\* UpdateRoom returns no error and the room as GetRoom reads it after the
\* writes.
C24_WritesSetFields ==
    UpdateRoomCalled =>
        /\ IsPrefix(WriteTypes(last.http), SetFieldTypes(cr.args[2]))
        /\ \A i \in 1..Len(last.http) :
              /\ last.http[i].method \in {"PUT", "GET"}
              /\ last.http[i].method = "PUT" =>
                    /\ i <= Len(SetFieldTypes(cr.args[2]))
                    /\ last.http[i].id = cr.args[1]
                    /\ last.http[i].body.content
                          = DesiredField(cr.args[2], last.http[i].body.type)
        /\ \A i \in RefusedWrites :
              /\ Len(last.http) = i
              /\ ~last.err.nil
              /\ last.err.msg[1] = Lit(UpdateFailureText(last.http[i].body.type))
              /\ last.val = ZeroRoom
        /\ RefusedWrites = {} =>
              /\ last.err.nil
              /\ WriteTypes(last.http) = SetFieldTypes(cr.args[2])
              /\ last.val = GetRoom(RunSteps(last.presrv, cr.args[1],
                                            UpdateRoomSteps(cr.args[2]),
                                            last.sched, 0).srv,
                                    adminMode, cr.args[1], last.sched,
                                    Len(SetFieldTypes(cr.args[2]))).val
              /\ last.val.RoomID = cr.args[1]
        /\ (Undisturbed /\ RoomExists(last.presrv, cr.args[1])) =>
              /\ \A i \in 1..Len(last.http) :
                    (last.http[i].method = "PUT" /\ i \notin last.faults) =>
                        DesiredField([Name |-> srv.rooms[cr.args[1]].name,
                                      Topic |-> srv.rooms[cr.args[1]].topic],
                                     last.http[i].body.type)
                            = last.http[i].body.content
              /\ [srv EXCEPT !.rooms[cr.args[1]].name = "",
                             !.rooms[cr.args[1]].topic = ""]
                    = [last.presrv EXCEPT !.rooms[cr.args[1]].name = "",
                                          !.rooms[cr.args[1]].topic = ""]
              /\ last.faults = {} =>
                    /\ last.val.Name = srv.rooms[cr.args[1]].name
                    /\ last.val.Topic = srv.rooms[cr.args[1]].topic

\* The name was written and the write of the topic failed.
C24_WitnessTopicFailed ==
    /\ RoomUpdatedByWire
    /\ last.faults = {2}
    /\ WriteTypes(last.http) = <<"m.room.name", "m.room.topic">>
    /\ Len(last.http) = 2
    /\ ~last.err.nil
    /\ srv.rooms[cr.args[1]].name = cr.args[2].Name
    /\ srv.rooms[cr.args[1]].topic = last.presrv.rooms[cr.args[1]].topic

\* The room is not on the server: the write of the name is refused and is
\* the only request.
C24_WitnessAbsentRoom ==
    /\ UpdateRoomCalled
    /\ ~RoomExists(last.presrv, cr.args[1])
    /\ last.faults = {}
    /\ Len(last.http) = 1
    /\ last.http[1].body.type = "m.room.name"
    /\ last.err.msg[1] = Lit("failed to update room name")
    /\ last.val = ZeroRoom

\* Both fields written: the room returned has the desired name and topic.
C24_WitnessReadBack ==
    /\ RoomUpdatedByWire
    /\ last.faults = {}
    /\ Len(WriteTypes(last.http)) = 2
    /\ last.err.nil
    /\ last.val.Name = cr.args[2].Name
    /\ last.val.Name # last.presrv.rooms[cr.args[1]].name
    /\ last.val.Topic = cr.args[2].Topic

\* Another client removed the room between the two writes.
C24_WitnessRoomRemoved ==
    /\ RoomUpdatedByWire
    /\ last.faults = {}
    /\ RefusedWrites = {2}
    /\ last.err.msg[1] = Lit("failed to update room topic")


-----------------------------------------------------------------------------
(* C25: Observe, Update, Observe on a Room *)

\* An Update of a Room returned success, and an Observe just before it (no
\* request failing) would have reported the room as existing and not up to
\* date.
RoomUpdatedWhenStale ==
    /\ last.op = "Update"
    /\ last.pre.kind = "Room"
    /\ last.err.nil
    /\ Undisturbed
    /\ RoomObserve(last.pre, last.presrv, adminMode, NoFaults).exists
    /\ ~RoomObserve(last.pre, last.presrv, adminMode, NoFaults).upToDate

\* C25: after a successful Update of a Room that Observe had reported as
\* existing and not up to date, the next Observe (nothing else having
\* changed) reports it up to date.
C25_UpdateConverges ==
    RoomUpdatedWhenStale => RoomObserve(cr, srv, adminMode, NoFaults).upToDate

\* Guest access is declared and differs: Update succeeds without a write,
\* the server is as it was, and the next Observe reports the same again.
C25_WitnessNoProgress ==
    /\ RoomUpdatedWhenStale
    /\ cr.spec.GuestAccess = Some("forbidden")
    /\ WritesOf(last.http) = <<>>
    /\ srv = last.presrv
    /\ RoomObserve(cr, srv, adminMode, NoFaults).exists
    /\ ~RoomObserve(cr, srv, adminMode, NoFaults).upToDate

\* The fields of a Room that isRoomUpToDate compares and UpdateRoom does not
\* write.
UnwrittenFieldsUnset ==
    /\ ~IsSet(cr.spec.Alias)
    /\ ~IsSet(cr.spec.GuestAccess)
    /\ ~IsSet(cr.spec.HistoryVisibility)
    /\ ~IsSet(cr.spec.JoinRules)
    /\ ~IsSet(cr.spec.EncryptionEnabled)
    /\ ~IsSet(cr.spec.AvatarURL)

\* With only the name and the topic declared, the Update does converge.
C25_NameAndTopicConverge ==
    (RoomUpdatedWhenStale /\ UnwrittenFieldsUnset) =>
        RoomObserve(cr, srv, adminMode, NoFaults).upToDate

C25_WitnessNameConverged ==
    /\ RoomUpdatedWhenStale
    /\ cr.spec.Name = Some("Hall")
    /\ last.presrv.rooms[R1].name = "Lobby"
    /\ srv.rooms[R1].name = "Hall"
    /\ RoomObserve(cr, srv, adminMode, NoFaults).upToDate


-----------------------------------------------------------------------------
(* C26: Delete, then Observe *)

\* The Observe of the object as it stands, no request failing.
ObserveNow ==
    CASE cr.kind = "User" -> UserObserve(cr, srv, adminMode, NoFaults)
      [] cr.kind = "Room" -> RoomObserve(cr, srv, adminMode, NoFaults)
      [] cr.kind = "PowerLevel" -> PowerLevelObserve(cr, srv, adminMode, NoFaults)
      [] cr.kind = "RoomAlias" -> RoomAliasObserve(cr, srv, adminMode, NoFaults)

Deleted(kind) ==
    /\ last.op = "Delete"
    /\ last.pre.kind = kind
    /\ last.err.nil

\* C26: after a Delete that returned success, the next Observe of the object
\* (nothing else having changed) reports exists = false, for every kind.
C26_DeleteIsTerminal ==
    (\E kind \in Kinds : Deleted(kind)) => ~ObserveNow.exists

\* A PowerLevel: Delete sent nothing, and Observe reports the power levels of
\* the room as existing.
C26_WitnessPowerLevel ==
    /\ Deleted("PowerLevel")
    /\ last.http = <<>>
    /\ srv = last.presrv
    /\ ObserveNow.err.nil
    /\ ObserveNow.exists

\* A User: Delete deactivated the account, and Observe reports it as existing.
C26_WitnessUser ==
    /\ Deleted("User")
    /\ Len(last.http) = 1
    /\ srv.users[U1].deactivated
    /\ ObserveNow.err.nil
    /\ ObserveNow.exists

\* A Room: Delete removed the room, and Observe reports it as existing.
C26_WitnessRoom ==
    /\ Deleted("Room")
    /\ Len(last.http) = 1
    /\ ~RoomExists(srv, R1)
    /\ ObserveNow.err.nil
    /\ ObserveNow.exists

\* A RoomAlias: after a successful Delete, Observe does not report existence.
C26_AliasDeleteIsTerminal ==
    Deleted("RoomAlias") => ~ObserveNow.exists

C26_WitnessAlias ==
    /\ Deleted("RoomAlias")
    /\ Len(last.http) = 1
    /\ AliasBound(last.presrv, A1)
    /\ ~AliasBound(srv, A1)
    /\ ~ObserveNow.exists


-----------------------------------------------------------------------------
(* C27: UpdateUser and the profiles of the other users *)

UserUpdatedByWire == WireDone /\ cr.op = "UpdateUser"

\* The profile the server holds for a user.
ProfileOn(s, u) ==
    [displayname |-> s.users[u].displayname, avatar_url |-> s.users[u].avatar_url]

\* The users whose profile the call changed.
ProfilesChanged == {u \in ServerUserIDs : ProfileOn(srv, u) # ProfileOn(last.presrv, u)}

\* C27: UpdateUser(userID, spec) leaves the display name and the avatar of
\* every user other than userID as they were, the provider's own account
\* included, with and without the admin API.
C27_OnlyNamedUserChanges ==
    UserUpdatedByWire => ProfilesChanged \subseteq {cr.args[1]}

\* Admin mode off, UpdateUser for @a:x with display name "Al": the display
\* name of the provider's own account @p:x becomes "Al", the profile of @a:x
\* is as it was, and the call returns success.
C27_WitnessOwnProfileChanged ==
    /\ UserUpdatedByWire
    /\ ~adminMode
    /\ cr.args[1] = U1
    /\ last.err.nil
    /\ last.http[1].method = "PUT"
    /\ last.http[1].id = UP
    /\ ProfileOn(last.presrv, UP).displayname = "Pr"
    /\ ProfileOn(srv, UP).displayname = "Al"
    /\ ProfilesChanged = {UP}

\* With the admin API, only the user named by userID changes.
C27_AdminModeOnlyNamedUser ==
    (UserUpdatedByWire /\ adminMode) => ProfilesChanged \subseteq {cr.args[1]}


-----------------------------------------------------------------------------
(* C28: Create and the annotations of the object *)

Created(kind) ==
    /\ last.op = "Create"
    /\ last.pre.kind = kind
    /\ last.err.nil

\* The annotations the object had before the call, the external name apart,
\* are still there with their values.
OtherAnnotationsKept ==
    \A k \in DOMAIN last.pre.annotations \ {AnnotationKeyExternalName} :
        /\ k \in DOMAIN cr.annotations
        /\ cr.annotations[k] = last.pre.annotations[k]

\* C28: a successful Create changes no annotation of the object other than
\* the external name, for every kind.
C28_CreateKeepsOtherAnnotations ==
    (\E kind \in Kinds : Created(kind)) => OtherAnnotationsKept

\* A Room that carried the annotation "team": after Create the external name
\* is the only annotation it has.
C28_WitnessRoomAnnotationLost ==
    /\ Created("Room")
    /\ "team" \in DOMAIN last.pre.annotations
    /\ DOMAIN cr.annotations = {AnnotationKeyExternalName}
    /\ GetExternalName(cr) \in ServerRoomIDs

\* The kinds that record the name with meta.SetExternalName keep the other
\* annotations.
C28_OtherKindsKeepAnnotations ==
    (\E kind \in Kinds \ {"Room"} : Created(kind)) => OtherAnnotationsKept

C28_WitnessAliasAnnotationKept ==
    /\ Created("RoomAlias")
    /\ "team" \in DOMAIN last.pre.annotations
    /\ cr.annotations["team"] = last.pre.annotations["team"]
    /\ GetExternalName(cr) = A1


-----------------------------------------------------------------------------
(* The life of one RoomAlias object: the reconciler methods in any order,   *)
(* with edits of its spec by the store that holds it in between.  last     *)
(* also keeps made, the aliases that calls on the object have bound.       *)

AliasLifeSpecs == {[Alias |-> a, RoomID |-> r] : a \in {A1, A2, BadID}, r \in {R1, BadID}}

\* Both rooms are on the server and no alias is bound.
AliasLifeServer ==
    [EmptyServer EXCEPT !.rooms[R1] = PresentRoom, !.rooms[R2] = PresentRoom]

NoAliasCall(c, s, made) ==
    [op |-> "None", pend |-> "", sched |-> NoFaults, pre |-> c, presrv |-> s,
     faults |-> {}, calls |-> <<>>, http |-> <<>>, err |-> NilErr,
     exists |-> FALSE, upToDate |-> FALSE, made |-> made]

InitAlias ==
    /\ adminMode \in BOOLEAN
    /\ \E p \in AliasLifeSpecs :
          cr = [kind |-> "RoomAlias", annotations |-> EmptyMap, spec |-> p,
                status |-> [atProvider |-> ZeroObservation("RoomAlias"),
                            conditions |-> {}]]
    /\ srv = AliasLifeServer
    /\ last = NoAliasCall(cr, srv, {})

\* The aliases a call bound: those a call that returned success sent a PUT
\* for, and that the server holds after it.
BoundBy(r) ==
    {a \in ServerAliases :
        /\ r.err.nil
        /\ AliasBound(r.srv, a)
        /\ \E i \in 1..Len(r.http) : r.http[i].method = "PUT" /\ r.http[i].id = a}

\* Served, with the aliases the call bound added to made when it returns.
WithMade(rec, made) ==
    [op |-> rec.op, pend |-> rec.pend, sched |-> rec.sched, pre |-> rec.pre,
     presrv |-> rec.presrv, faults |-> rec.faults, calls |-> rec.calls,
     http |-> rec.http, err |-> rec.err, exists |-> rec.exists,
     upToDate |-> rec.upToDate, made |-> made]

AliasServed(op, r, r2, sched) ==
    /\ Failing(sched, Sent + 1) => Len(r.http) = Sent + 1
    /\ cr' = IF Returns(r2) THEN r2.cr ELSE cr
    /\ srv' = IF Returns(r2) THEN r2.srv ELSE r.srv
    /\ last' = IF Returns(r2)
                THEN WithMade(Returned(op, r2, sched), last.made \cup BoundBy(r2))
                ELSE WithMade(InProgress(op, r, sched), last.made)
    /\ UNCHANGED adminMode

AliasLife == cr.kind = "RoomAlias" /\ "made" \in DOMAIN last

AliasLifeObserve ==
    /\ AliasLife
    /\ CanRun("RoomAlias", "Observe")
    /\ \E f \in BOOLEAN :
          /\ MayFail(f)
          /\ AliasServed("Observe", RoomAliasObserve(cr, PreSrv, adminMode, NextSched(f)),
                         RoomAliasObserve(cr, PreSrv, adminMode, After(NextSched(f))),
                         NextSched(f))

AliasLifeCreate ==
    /\ AliasLife
    /\ CanRun("RoomAlias", "Create")
    /\ \E f \in BOOLEAN :
          /\ MayFail(f)
          /\ AliasServed("Create", RoomAliasCreate(cr, PreSrv, adminMode, NextSched(f)),
                         RoomAliasCreate(cr, PreSrv, adminMode, After(NextSched(f))),
                         NextSched(f))

AliasLifeUpdate ==
    /\ AliasLife
    /\ CanRun("RoomAlias", "Update")
    /\ \E f \in BOOLEAN :
          /\ MayFail(f)
          /\ AliasServed("Update", RoomAliasUpdate(cr, PreSrv, adminMode, NextSched(f)),
                         RoomAliasUpdate(cr, PreSrv, adminMode, After(NextSched(f))),
                         NextSched(f))

AliasLifeDelete ==
    /\ AliasLife
    /\ CanRun("RoomAlias", "Delete")
    /\ \E f \in BOOLEAN :
          /\ MayFail(f)
          /\ AliasServed("Delete", RoomAliasDelete(cr, PreSrv, adminMode, NextSched(f)),
                         RoomAliasDelete(cr, PreSrv, adminMode, After(NextSched(f))),
                         NextSched(f))

\* The store edits spec.forProvider of the object.
AliasSpecEdited ==
    /\ AliasLife
    /\ ~Pending
    /\ \E p \in AliasLifeSpecs \ {cr.spec} :
          /\ cr' = [cr EXCEPT !.spec = p]
          /\ last' = NoAliasCall(cr', srv, last.made)
    /\ UNCHANGED <<adminMode, srv>>

\* Other clients bind and remove aliases.
AliasInterference ==
    /\ AliasLife
    /\ (ServerAliasRemoved \/ ServerAliasBound)

NextAlias ==
    \/ AliasLifeObserve
    \/ AliasLifeCreate
    \/ AliasLifeUpdate
    \/ AliasLifeDelete
    \/ AliasSpecEdited
    \/ AliasInterference

SpecAlias == InitAlias /\ [][NextAlias]_vars

-----------------------------------------------------------------------------
(* C29: RoomAlias Update with a malformed identifier *)

AliasLifeUpdated == AliasLife /\ last.op = "Update"

MalformedAlias == ~validateMatrixID(last.pre.spec.Alias, "alias").nil

MalformedRoomID == ~validateMatrixID(last.pre.spec.RoomID, "room").nil

\* C29: RoomAlias Update with a malformed desired room ID or a malformed
\* alias returns an error and changes nothing on the server: an alias bound
\* before the call is bound after it.
C29_MalformedUpdateMutatesNothing ==
    (AliasLifeUpdated /\ (MalformedAlias \/ MalformedRoomID)) =>
        /\ ~last.err.nil
        /\ srv = last.presrv

\* The alias was bound, the desired room ID is "b": Update deleted the alias,
\* then refused to create it, and the alias is bound to no room.
C29_WitnessAliasLost ==
    /\ AliasLifeUpdated
    /\ last.pre.spec = [Alias |-> A1, RoomID |-> BadID]
    /\ AliasBound(last.presrv, A1)
    /\ Len(last.http) = 1
    /\ last.http[1].method = "DELETE"
    /\ ~last.err.nil
    /\ ~AliasBound(srv, A1)

\* With a malformed alias the error comes before any request.
C29_MalformedAliasMutatesNothing ==
    (AliasLifeUpdated /\ MalformedAlias) =>
        /\ ~last.err.nil
        /\ last.http = <<>>
        /\ srv = last.presrv

C29_WitnessMalformedAlias ==
    /\ AliasLifeUpdated
    /\ last.pre.spec.Alias = BadID
    /\ AliasBound(last.presrv, A1)
    /\ last.http = <<>>
    /\ ~last.err.nil


-----------------------------------------------------------------------------
(* C30: the aliases a RoomAlias object has bound *)

\* The aliases the object has bound that are still bound and are not the
\* alias of its spec.
LeftBehind == {a \in last.made : AliasBound(srv, a) /\ a # cr.spec.Alias}

AliasLifeDeleted == AliasLife /\ last.op = "Delete" /\ last.err.nil

\* The object is reconciled: Observe has just reported it as existing and up
\* to date.
AliasLifeSettled ==
    /\ AliasLife
    /\ last.op = "Observe"
    /\ last.err.nil
    /\ last.exists
    /\ last.upToDate

\* C30: whatever the edits of the spec and the calls made, once the object
\* is reconciled every alias it has bound is the alias its spec names or is
\* bound no longer; and after a successful Delete none of them is bound.
C30_AtMostOneAlias ==
    /\ AliasLifeSettled => LeftBehind = {}
    /\ AliasLifeDeleted => \A a \in last.made : ~AliasBound(srv, a)

\* The spec named #a:x and was edited to #b:x; Create bound #b:x as well, and
\* #a:x is still bound though the object no longer names it.
C30_WitnessTwoAliases ==
    /\ AliasLife
    /\ last.op = "Create"
    /\ last.err.nil
    /\ cr.spec.Alias = A2
    /\ GetExternalName(last.pre) = A1
    /\ GetExternalName(cr) = A2
    /\ last.made = {A1, A2}
    /\ AliasBound(srv, A1)
    /\ AliasBound(srv, A2)

\* The object is reconciled under the new alias and #a:x is still bound.
C30_WitnessSettledWithTwo ==
    /\ AliasLifeSettled
    /\ cr.spec.Alias = A2
    /\ LeftBehind = {A1}
    /\ AliasBound(srv, A2)

\* After the Delete that followed, #a:x is still bound.
C30_WitnessLeftAfterDelete ==
    /\ AliasLifeDeleted
    /\ Len(last.http) = 1
    /\ last.http[1].id = A2
    /\ last.made = {A1, A2}
    /\ AliasBound(srv, A1)
    /\ ~AliasBound(srv, A2)

====
